---- MODULE Spec2Model ----
(***************************************************************************)
(* Model of the hpy-discord-bot chemistry cog (src/cogs/chemistry.py):     *)
(* the formula parser, the equation balancer and the /chem balance         *)
(* command handler.                                                        *)
(*                                                                         *)
(* A Python str is a sequence of one-character strings; a dict is a        *)
(* sequence of [el, cnt] records in insertion order (Python dicts keep     *)
(* insertion order, and _expand_groups depends on it).                     *)
(***************************************************************************)
EXTENDS Integers, Sequences, FiniteSets, TLC

\* ------------------------------------------------------------------------
\* Characters
\* ------------------------------------------------------------------------

\* [A-Z] and [a-z] of _elem_pat, in code-point order.
UpperSeq == << "A", "B", "C", "D", "E", "F", "G", "H", "I", "J", "K", "L", "M",
               "N", "O", "P", "Q", "R", "S", "T", "U", "V", "W", "X", "Y", "Z" >>
LowerSeq == << "a", "b", "c", "d", "e", "f", "g", "h", "i", "j", "k", "l", "m",
               "n", "o", "p", "q", "r", "s", "t", "u", "v", "w", "x", "y", "z" >>
\* \d of the two patterns (the ASCII digits; the inputs of the model hold no
\* other Unicode digit).
DigitSeq == << "0", "1", "2", "3", "4", "5", "6", "7", "8", "9" >>

Range(s) == { s[i] : i \in 1..Len(s) }

Upper == Range(UpperSeq)
Lower == Range(LowerSeq)
Digit == Range(DigitSeq)

\* The characters str.strip() removes, those for which str.isspace() holds:
\* U+0009 to U+000D, U+001C to U+001F and the space, written as they are,
\* and the whitespace characters beyond ASCII, which a TLA+ string cannot
\* hold and which are named by their code points.
Whitespace ==
    { " ", "\t", "\n", "", "\f", "\r", "", "", "", "",
      "U+0085", "U+00A0", "U+1680", "U+2000", "U+2001", "U+2002", "U+2003",
      "U+2004", "U+2005", "U+2006", "U+2007", "U+2008", "U+2009", "U+200A",
      "U+2028", "U+2029", "U+202F", "U+205F", "U+3000" }

IndexOf(seq, c) == CHOOSE i \in 1..Len(seq) : seq[i] = c

DigitVal(c) == IndexOf(DigitSeq, c) - 1

\* int(num) of a string of digits.
RECURSIVE StrToInt(_)
StrToInt(s) ==
    IF s = << >> THEN 0
    ELSE 10 * StrToInt(SubSeq(s, 1, Len(s) - 1)) + DigitVal(s[Len(s)])

\* str(n) of a non-negative int, as the f-string of _expand_groups formats it.
RECURSIVE IntToStr(_)
IntToStr(n) ==
    IF n < 10 THEN << DigitSeq[n + 1] >>
    ELSE IntToStr(n \div 10) \o << DigitSeq[(n % 10) + 1] >>

\* ------------------------------------------------------------------------
\* dict[str, int], insertion-ordered
\* ------------------------------------------------------------------------

DictKeys(d) == { d[i].el : i \in 1..Len(d) }

DictHas(d, k) == \E i \in 1..Len(d) : d[i].el = k

\* d.get(k, default)
DictGet(d, k, default) ==
    IF DictHas(d, k)
    THEN d[CHOOSE i \in 1..Len(d) : d[i].el = k].cnt
    ELSE default

\* d[k] = v : an existing key keeps its position, a new key goes last.
DictSet(d, k, v) ==
    IF DictHas(d, k)
    THEN [ i \in 1..Len(d) |-> IF d[i].el = k THEN [el |-> k, cnt |-> v] ELSE d[i] ]
    ELSE Append(d, [el |-> k, cnt |-> v])

\* ------------------------------------------------------------------------
\* Formula parser
\* ------------------------------------------------------------------------

\* First index >= i of s that holds no digit (Len(s) + 1 when there is none):
\* the end of the greedy \d* / \d+ run starting at i.
RECURSIVE DigitsEnd(_, _)
DigitsEnd(s, i) ==
    IF i <= Len(s) /\ s[i] \in Digit THEN DigitsEnd(s, i + 1) ELSE i

\* _elem_pat.findall(formula): the non-overlapping matches of
\* ([A-Z][a-z]?)(\d*), left to right, as <<el, num>> pairs.
RECURSIVE ElemFindall(_, _)
ElemFindall(s, i) ==
    IF i > Len(s) THEN << >>
    ELSE IF s[i] \in Upper
         THEN LET j == IF i + 1 <= Len(s) /\ s[i + 1] \in Lower THEN i + 2 ELSE i + 1
                  k == DigitsEnd(s, j)
              IN  << << SubSeq(s, i, j - 1), SubSeq(s, j, k - 1) >> >>
                      \o ElemFindall(s, k)
         ELSE ElemFindall(s, i + 1)

\* The loop body of _count_atoms_basic, folded over the matches.
RECURSIVE CountFold(_, _)
CountFold(ms, counts) ==
    IF ms = << >> THEN counts
    ELSE LET el  == Head(ms)[1]
             num == Head(ms)[2]
             n   == IF num # << >> THEN StrToInt(num) ELSE 1
         IN  CountFold(Tail(ms), DictSet(counts, el, DictGet(counts, el, 0) + n))

\* _count_atoms_basic folding a number written in front of the formula into
\* the counts.
_count_atoms_basic_scaled(formula) ==
    LET k      == DigitsEnd(formula, 1)
        m      == IF k > 1 THEN StrToInt(SubSeq(formula, 1, k - 1)) ELSE 1
        counts == CountFold(ElemFindall(formula, 1), << >>)
    IN  [ i \in 1..Len(counts) |-> [ el |-> counts[i].el, cnt |-> counts[i].cnt * m ] ]

_count_atoms_basic(formula) == CountFold(ElemFindall(formula, 1), << >>)

\* Whether _group_pat, \(([^()]+)\)(\d+), matches s starting at index i: "("
\* at i, a non-empty run without parentheses, ")" and at least one digit.
RECURSIVE NoParenEnd(_, _)
NoParenEnd(s, i) ==
    IF i <= Len(s) /\ s[i] \notin { "(", ")" } THEN NoParenEnd(s, i + 1) ELSE i

GroupMatchAt(s, i) ==
    /\ i <= Len(s)
    /\ s[i] = "("
    /\ LET c == NoParenEnd(s, i + 1)
       IN  /\ c > i + 1
           /\ c <= Len(s)
           /\ s[c] = ")"
           /\ c + 1 <= Len(s)
           /\ s[c + 1] \in Digit

\* A search that tries the first "(" of the formula only.
GroupSearchAtFirstParen(s) ==
    IF \E i \in 1..Len(s) : s[i] = "(" /\ GroupMatchAt(s, i)
                                /\ \A j \in 1..(i - 1) : s[j] # "("
    THEN CHOOSE i \in 1..Len(s) : s[i] = "(" /\ \A j \in 1..(i - 1) : s[j] # "("
    ELSE 0

\* _group_pat.search(formula): 0 when there is no match, else the index of
\* the "(" of the leftmost match.
GroupSearch(s) ==
    IF \E i \in 1..Len(s) : GroupMatchAt(s, i)
    THEN CHOOSE i \in 1..Len(s) :
            /\ GroupMatchAt(s, i)
            /\ \A j \in 1..(i - 1) : ~GroupMatchAt(s, j)
    ELSE 0

\* ExpandedText that leaves the number out when cnt, not cnt*mult, is 1.
RECURSIVE ExpandedTextOmitByCnt(_, _)
ExpandedTextOmitByCnt(counts, mult) ==
    IF counts = << >> THEN << >>
    ELSE LET el == Head(counts).el
             n  == Head(counts).cnt * mult
         IN  el \o (IF Head(counts).cnt # 1 THEN IntToStr(n) ELSE << >>)
                \o ExpandedTextOmitByCnt(Tail(counts), mult)

\* The join of _expand_groups: each element followed by cnt*mult, the number
\* left out when it is 1.
RECURSIVE ExpandedText(_, _)
ExpandedText(counts, mult) ==
    IF counts = << >> THEN << >>
    ELSE LET el == Head(counts).el
             n  == Head(counts).cnt * mult
         IN  el \o (IF n # 1 THEN IntToStr(n) ELSE << >>)
                \o ExpandedText(Tail(counts), mult)

\* An iteration that writes the expansion back as a group of multiplier 1.
ExpandStepAsGroup(formula, st) ==
    LET c      == NoParenEnd(formula, st + 1)
        e      == DigitsEnd(formula, c + 1)
        inside == SubSeq(formula, st + 1, c - 1)
        mult   == StrToInt(SubSeq(formula, c + 1, e - 1))
        counts == _count_atoms_basic(inside)
    IN  SubSeq(formula, 1, st - 1) \o << "(" >> \o ExpandedText(counts, mult)
            \o << ")", "1" >> \o SubSeq(formula, e, Len(formula))

\* One iteration of the while loop of _expand_groups on a formula that has a
\* match starting at index st.
ExpandStep(formula, st) ==
    LET c      == NoParenEnd(formula, st + 1)
        e      == DigitsEnd(formula, c + 1)
        inside == SubSeq(formula, st + 1, c - 1)
        mult   == StrToInt(SubSeq(formula, c + 1, e - 1))
        counts == _count_atoms_basic(inside)
    IN  SubSeq(formula, 1, st - 1) \o ExpandedText(counts, mult)
            \o SubSeq(formula, e, Len(formula))

RECURSIVE _expand_groups(_)
_expand_groups(formula) ==
    LET st == GroupSearch(formula)
    IN  IF st = 0 THEN formula ELSE _expand_groups(ExpandStep(formula, st))

parse_formula(formula) == _count_atoms_basic(_expand_groups(formula))

\* ------------------------------------------------------------------------
\* str.split / str.strip
\* ------------------------------------------------------------------------

\* s.split(sep) for a one-character separator: the pieces between the
\* separators, empty pieces included (always at least one piece).
RECURSIVE SplitFrom(_, _, _, _)
SplitFrom(s, sep, i, cur) ==
    IF i > Len(s) THEN << cur >>
    ELSE IF s[i] = sep
         THEN << cur >> \o SplitFrom(s, sep, i + 1, << >>)
         ELSE SplitFrom(s, sep, i + 1, Append(cur, s[i]))

Split(s, sep) == SplitFrom(s, sep, 1, << >>)

RECURSIVE LStrip(_)
LStrip(s) == IF s # << >> /\ Head(s) \in Whitespace THEN LStrip(Tail(s)) ELSE s

RECURSIVE RStrip(_)
RStrip(s) ==
    IF s # << >> /\ s[Len(s)] \in Whitespace
    THEN RStrip(SubSeq(s, 1, Len(s) - 1))
    ELSE s

\* s.strip()
Strip(s) == RStrip(LStrip(s))

\* ------------------------------------------------------------------------
\* Exact rationals (sympy Rational): <<numerator, denominator>>, denominator
\* positive, in lowest terms.
\* ------------------------------------------------------------------------

Abs(x) == IF x < 0 THEN -x ELSE x

RECURSIVE GcdNat(_, _)
GcdNat(a, b) == IF b = 0 THEN a ELSE GcdNat(b, a % b)

\* The non-negative greatest common divisor of two integers.
Gcd(a, b) == GcdNat(Abs(a), Abs(b))

Lcm(a, b) == IF a = 0 \/ b = 0 THEN 0 ELSE (Abs(a) \div Gcd(a, b)) * Abs(b)

Rat(n, d) ==
    LET g == Gcd(n, d)
        s == IF d < 0 THEN -1 ELSE 1
    IN  << (s * n) \div g, (s * d) \div g >>

RInt(n) == << n, 1 >>
RZero == RInt(0)
ROne == RInt(1)

RSub(a, b) == Rat(a[1] * b[2] - b[1] * a[2], a[2] * b[2])
RMul(a, b) == Rat(a[1] * b[1], a[2] * b[2])
RDiv(a, b) == Rat(a[1] * b[2], a[2] * b[1])
RNeg(a) == << -a[1], a[2] >>

\* ------------------------------------------------------------------------
\* Equation balancer
\* ------------------------------------------------------------------------

\* parse_side: the trimmed terms of a side, each with its parsed formula.
\* parse_side keeping each term as split, untrimmed, for its name.
parse_side_unstripped(side) ==
    LET terms == Split(side, "+")
    IN  [ i \in 1..Len(terms) |->
            [ name |-> terms[i], d |-> parse_formula(Strip(terms[i])) ] ]

parse_side(side) ==
    LET terms == Split(side, "+")
    IN  [ i \in 1..Len(terms) |->
            [ name |-> Strip(terms[i]), d |-> parse_formula(Strip(terms[i])) ] ]

\* Code-point order of two element symbols ([A-Z][a-z]?), as sorted() uses.
ElemLess(a, b) ==
    \/ IndexOf(UpperSeq, a[1]) < IndexOf(UpperSeq, b[1])
    \/ /\ a[1] = b[1]
       /\ \/ Len(a) < Len(b)
          \/ /\ Len(a) = 2
             /\ Len(b) = 2
             /\ IndexOf(LowerSeq, a[2]) < IndexOf(LowerSeq, b[2])

\* sorted(els) of a set of element symbols.
RECURSIVE SortedElems(_)
SortedElems(els) ==
    IF els = { } THEN << >>
    ELSE LET m == CHOOSE x \in els : \A y \in els \ { x } : ElemLess(x, y)
         IN  << m >> \o SortedElems(els \ { m })

TermElems(terms) == UNION { DictKeys(terms[i].d) : i \in 1..Len(terms) }

collect_elements(terms) == SortedElems(TermElems(terms))

\* build_matrix with the product columns left positive.
build_matrix_unsigned(lhs_terms, rhs_terms) ==
    LET elements == SortedElems(TermElems(lhs_terms) \cup TermElems(rhs_terms))
        nL   == Len(lhs_terms)
        cols == nL + Len(rhs_terms)
    IN  [ rows |-> Len(elements),
          cols |-> cols,
          m    |-> [ r \in 1..Len(elements) |->
                       [ c \in 1..cols |->
                           IF c <= nL
                           THEN RInt(DictGet(lhs_terms[c].d, elements[r], 0))
                           ELSE RInt(DictGet(rhs_terms[c - nL].d, elements[r], 0)) ] ] ]

\* build_matrix: one row per element (sorted), reactant columns positive,
\* product columns negative.  A matrix is [rows, cols, m], m its rows.
build_matrix(lhs_terms, rhs_terms) ==
    LET elements == SortedElems(Range(collect_elements(lhs_terms))
                                    \cup Range(collect_elements(rhs_terms)))
        nL   == Len(lhs_terms)
        cols == nL + Len(rhs_terms)
    IN  [ rows |-> Len(elements),
          cols |-> cols,
          m    |-> [ r \in 1..Len(elements) |->
                       [ c \in 1..cols |->
                           IF c <= nL
                           THEN RInt(DictGet(lhs_terms[c].d, elements[r], 0))
                           ELSE RInt(-DictGet(rhs_terms[c - nL].d, elements[r], 0)) ] ] ]

\* Gauss-Jordan elimination from column col on, prow - 1 pivots found so far:
\* the reduced row echelon form and the pivot columns, as Matrix.rref gives.
RECURSIVE RrefFrom(_, _, _, _, _, _)
RrefFrom(m, rows, cols, col, prow, pivots) ==
    IF col > cols \/ prow > rows THEN [ m |-> m, pivots |-> pivots ]
    ELSE IF \A r \in prow..rows : m[r][col] = RZero
         THEN RrefFrom(m, rows, cols, col + 1, prow, pivots)
         ELSE LET pr   == CHOOSE r \in prow..rows :
                              /\ m[r][col] # RZero
                              /\ \A q \in prow..(r - 1) : m[q][col] = RZero
                  sw   == [ r \in 1..rows |->
                              IF r = prow THEN m[pr]
                              ELSE IF r = pr THEN m[prow] ELSE m[r] ]
                  piv  == sw[prow][col]
                  nrow == [ c \in 1..cols |-> RDiv(sw[prow][c], piv) ]
                  el   == [ r \in 1..rows |->
                              IF r = prow THEN nrow
                              ELSE [ c \in 1..cols |->
                                       RSub(sw[r][c], RMul(sw[r][col], nrow[c])) ] ]
              IN  RrefFrom(el, rows, cols, col + 1, prow + 1, Append(pivots, col))

rref(A) == RrefFrom(A.m, A.rows, A.cols, 1, 1, << >>)

\* free_vars of nullspace: the columns i..cols that hold no pivot, ascending.
RECURSIVE FreeVars(_, _, _)
FreeVars(pivots, i, cols) ==
    IF i > cols THEN << >>
    ELSE (IF i \in Range(pivots) THEN << >> ELSE << i >>)
            \o FreeVars(pivots, i + 1, cols)

\* Matrix.nullspace(): one basis vector per free column, in column order;
\* the free variable is 1, the pivot variables are back-substituted.
nullspace(A) ==
    LET red  == rref(A)
        free == FreeVars(red.pivots, 1, A.cols)
    IN  [ k \in 1..Len(free) |->
            [ c \in 1..A.cols |->
                IF c = free[k] THEN ROne
                ELSE IF c \in Range(red.pivots)
                     THEN RNeg(red.m[IndexOf(red.pivots, c)][free[k]])
                     ELSE RZero ] ]

\* ------------------------------------------------------------------------
\* Results: a call returns a value (ok) or raises (err names the exception).
\* ------------------------------------------------------------------------

NoError == [ type |-> "", msg |-> "" ]

ErrTooMany   == [ type |-> "ValueError",
                  msg  |-> "too many values to unpack (expected 2)" ]
ErrNoSolution == [ type |-> "ValueError", msg |-> "No non-trivial solution." ]
\* sp.ilcm / sp.igcd of a list of at least two integers.
RECURSIVE LcmList(_)
LcmList(xs) == IF xs = << >> THEN 1 ELSE Lcm(Head(xs), LcmList(Tail(xs)))

RECURSIVE ProductList(_)
ProductList(xs) == IF xs = << >> THEN 1 ELSE Head(xs) * ProductList(Tail(xs))

RECURSIVE GcdList(_)
GcdList(xs) == IF xs = << >> THEN 0 ELSE Gcd(Head(xs), GcdList(Tail(xs)))

\* The sign loop of nullspace_integer: the sign of the first non-zero entry,
\* 1 when every entry is zero.
RECURSIVE FirstSign(_)
FirstSign(xs) ==
    IF xs = << >> THEN 1
    ELSE IF Head(xs) # 0 THEN (IF Head(xs) < 0 THEN -1 ELSE 1)
         ELSE FirstSign(Tail(xs))

\* The last step of nullspace_integer: divide the signed integer vector by
\* the gcd of the absolute values of its entries.
ReduceByGcd(vec) ==
    LET gcd == GcdList([ i \in 1..Len(vec) |-> Abs(vec[i]) ])
    IN  [ i \in 1..Len(vec) |-> vec[i] \div gcd ]

\* The sign step of nullspace_integer.
MakePositive(vec) ==
    LET sign == FirstSign(vec)
    IN  [ i \in 1..Len(vec) |-> vec[i] * sign ]

\* nullspace_integer that clears the denominators by their product and
\* returns the signed vector without reducing it.
nullspace_integer_unreduced(A) ==
    LET ns == nullspace(A)
    IN  IF ns = << >> THEN [ ok |-> FALSE, vec |-> << >>, err |-> ErrNoSolution ]
        ELSE LET vec0   == ns[1]
                 prod   == ProductList([ i \in 1..Len(vec0) |-> vec0[i][2] ])
                 scaled == [ i \in 1..Len(vec0) |-> RMul(vec0[i], RInt(prod))[1] ]
             IN  [ ok |-> TRUE, vec |-> MakePositive(scaled), err |-> NoError ]

\* nullspace_integer without the guard on an empty basis: the zero vector
\* is returned instead.
nullspace_integer_unguarded(A) ==
    LET ns == nullspace(A)
    IN  IF ns = << >>
        THEN [ ok |-> TRUE, vec |-> [ i \in 1..A.cols |-> 0 ], err |-> NoError ]
        ELSE LET vec0   == ns[1]
                 lcm    == LcmList([ i \in 1..Len(vec0) |-> vec0[i][2] ])
                 scaled == [ i \in 1..Len(vec0) |-> RMul(vec0[i], RInt(lcm))[1] ]
             IN  [ ok  |-> TRUE,
                   vec |-> ReduceByGcd(MakePositive(scaled)),
                   err |-> NoError ]

nullspace_integer(A) ==
    LET ns == nullspace(A)
    IN  IF ns = << >> THEN [ ok |-> FALSE, vec |-> << >>, err |-> ErrNoSolution ]
        ELSE IF A.cols < 2 THEN [ ok |-> FALSE, vec |-> << >>, err |-> [ type |-> "TypeError",
                          msg  |-> "ilcm() takes at least 2 arguments (1 given)" ] ]
        ELSE LET vec0   == ns[1]
                 lcm    == LcmList([ i \in 1..Len(vec0) |-> vec0[i][2] ])
                 scaled == [ i \in 1..Len(vec0) |-> RMul(vec0[i], RInt(lcm))[1] ]
             IN  [ ok  |-> TRUE,
                   vec |-> ReduceByGcd(MakePositive(scaled)),
                   err |-> NoError ]

Failure(e) ==
    [ ok |-> FALSE, coeffs |-> << >>, lhs_names |-> << >>, rhs_names |-> << >>,
      err |-> e ]

\* The unpacking "left, right = [...]" of balance_equation.
UnpackTwo(parts) ==
    IF Len(parts) < 2
    THEN [ type |-> "ValueError", msg |-> "not enough values to unpack (expected 2, got 1)" ]
    ELSE IF Len(parts) > 2 THEN ErrTooMany ELSE NoError

balance_equation(equation) ==
    LET parts == Split(equation, "=")
    IN  IF UnpackTwo(parts) # NoError THEN Failure(UnpackTwo(parts))
        ELSE LET left      == Strip(parts[1])
                 right     == Strip(parts[2])
                 lhs_terms == parse_side(left)
                 rhs_terms == parse_side(right)
                 A         == build_matrix(lhs_terms, rhs_terms)
                 res       == nullspace_integer(A)
             IN  IF ~res.ok THEN Failure(res.err)
                 ELSE LET nL == Len(lhs_terms)
                      IN  [ ok        |-> TRUE,
                            coeffs    |-> SubSeq(res.vec, 1, nL)
                                            \o SubSeq(res.vec, nL + 1, Len(res.vec)),
                            lhs_names |-> [ i \in 1..nL |-> lhs_terms[i].name ],
                            rhs_names |-> [ i \in 1..Len(rhs_terms) |-> rhs_terms[i].name ],
                            err       |-> NoError ]

\* ------------------------------------------------------------------------
\* /chem balance command
\* ------------------------------------------------------------------------

\* str(c) of an int, as the f-string of format_balanced formats it.
IntStr(c) == IF c < 0 THEN << "-" >> \o IntToStr(-c) ELSE IntToStr(c)

\* fmt writing the coefficient in front of every name, 1 included.
fmt_always(c, n) == IntStr(c) \o << " " >> \o n

\* fmt of format_balanced.
fmt(c, n) == (IF c # 1 THEN IntStr(c) \o << " " >> ELSE << >>) \o n

\* sep.join(parts)
RECURSIVE Join(_, _)
Join(sep, parts) ==
    IF parts = << >> THEN << >>
    ELSE IF Len(parts) = 1 THEN parts[1]
         ELSE parts[1] \o sep \o Join(sep, Tail(parts))

format_balanced(lhs_coeffs, lhs_names, rhs_coeffs, rhs_names) ==
    LET left  == Join(<< " ", "+", " " >>,
                      [ i \in 1..(IF Len(lhs_coeffs) < Len(lhs_names) THEN Len(lhs_coeffs)
                              ELSE Len(lhs_names)) |->
                          fmt(lhs_coeffs[i], lhs_names[i]) ])
        right == Join(<< " ", "+", " " >>,
                      [ i \in 1..(IF Len(rhs_coeffs) < Len(rhs_names) THEN Len(rhs_coeffs)
                              ELSE Len(rhs_names)) |->
                          fmt(rhs_coeffs[i], rhs_names[i]) ])
    IN  left \o << " ", "=", " " >> \o right

\* The character U+0060 that delimits the code span of the embed (a TLA+
\* string cannot hold it, so it is named).
Backquote == "BACKQUOTE"

\* content=None / embed=None of send_reply.
NoContent == << >>
NoEmbed == [ title |-> "", description |-> << >> ]

HintContent == << "Use the format: reactants = products" >>
\* f"Could not balance - {e}" (the source writes an em dash): the fixed
\* prefix and the text of the exception.
ErrorContent(e) == << "Could not balance - ", e.msg >>

\* send_reply: one message appended to what the interaction has been sent,
\* through the initial response or, once that is done, the follow-up webhook.
send_reply(sent, done, content, embed, pub) ==
    Append(sent, [ content   |-> content,
                   embed     |-> embed,
                   ephemeral |-> ~pub,
                   via       |-> IF done THEN "followup" ELSE "response" ])

\* "await" of a send_reply: after is what the interaction has been sent
\* once the send has returned, and outcomes are the outcomes of the sends
\* awaited from this one on, NoError for a send that returns and the
\* exception for one that raises.  With no outcome yet the handler stands at
\* the await, the message pending; a send that raises delivers nothing.
Await(after, outcomes) ==
    IF outcomes = << >>
    THEN [ pc |-> "await", sent |-> SubSeq(after, 1, Len(after) - 1),
           pending |-> << after[Len(after)] >>, escaped |-> NoError ]
    ELSE IF Head(outcomes) = NoError
    THEN [ pc |-> "returned", sent |-> after, pending |-> << >>, escaped |-> NoError ]
    ELSE [ pc |-> "raised", sent |-> SubSeq(after, 1, Len(after) - 1),
           pending |-> << >>, escaped |-> Head(outcomes) ]

\* An except clause that names TypeError alone.
CaughtTypeErrorOnly(e) == e.type = "TypeError"

\* "except Exception as e" catches e: every type but BaseException and
\* those that derive from it and not from Exception.
Caught(e) ==
    e.type \notin { "BaseException", "BaseExceptionGroup", "CancelledError",
                    "KeyboardInterrupt", "SystemExit", "GeneratorExit" }

\* The except clause of chem_balance (lines 149-150) after a send a that
\* was awaited inside the try: an exception of that send is answered with
\* the error text, and an exception of this second send leaves the handler.
chem_except(a, sent, done, outcomes) ==
    IF a.pc = "raised" /\ Caught(a.escaped)
    THEN Await(send_reply(sent, done, ErrorContent(a.escaped), NoEmbed, FALSE),
               Tail(outcomes))
    ELSE a

\* chem_balance from the return of balance_equation on (lines 142-150): r
\* is what balance_equation returned or raised.  The result names where the
\* handler stands with what sent, pending and escaped (reply), and whether
\* balance_equation was called with what outcome.
chem_balance_reply(r, pub, sent, done, outcomes) ==
    IF r.ok
    THEN LET nL         == Len(r.lhs_names)
             lhs_coeffs == SubSeq(r.coeffs, 1, nL)
             rhs_coeffs == SubSeq(r.coeffs, nL + 1, Len(r.coeffs))
             balanced   == format_balanced(lhs_coeffs, r.lhs_names,
                                           rhs_coeffs, r.rhs_names)
             embed      == [ title       |-> "Balanced Equation",
                             description |-> << Backquote >> \o balanced
                                                 \o << Backquote >> ]
         IN  [ reply  |-> chem_except(Await(send_reply(sent, done, NoContent, embed, pub),
                                            outcomes),
                                      sent, done, outcomes),
               called |-> TRUE, result |-> r ]
    ELSE IF Caught(r.err)
         THEN [ reply  |-> Await(send_reply(sent, done, ErrorContent(r.err), NoEmbed, FALSE),
                                 outcomes),
                called |-> TRUE, result |-> r ]
         ELSE [ reply  |-> [ pc |-> "raised", sent |-> sent, pending |-> << >>,
                             escaped |-> r.err ],
                called |-> TRUE, result |-> r ]

\* chem_balance without the test for "=" before balance_equation is called.
chem_balance_unchecked(equation, pub, sent, done, outcomes) ==
    chem_balance_reply(balance_equation(equation), pub, sent, done, outcomes)

\* The body of chem_balance for one request.
chem_balance(equation, pub, sent, done, outcomes) ==
    IF "=" \notin Range(equation)
    THEN [ reply  |-> chem_except(Await(send_reply(sent, done, HintContent, NoEmbed, FALSE),
                                        outcomes),
                                  sent, done, outcomes),
           called |-> FALSE, result |-> Failure(NoError) ]
    ELSE chem_balance_reply(balance_equation(equation), pub, sent, done, outcomes)

\* ------------------------------------------------------------------------
\* Inputs
\* ------------------------------------------------------------------------

\* Longest string of the exhaustive string families.
MaxRawLen == 4
\* Most element tokens in a row in a generated formula, most terms on a
\* side of a generated equation.
MaxItems == 2
MaxTerms == 2

\* Every string over alphabet of length at most n.
RECURSIVE StringsUpTo(_, _)
StringsUpTo(alphabet, n) ==
    IF n = 0 THEN { << >> }
    ELSE LET shorter == StringsUpTo(alphabet, n - 1)
         IN  shorter \cup { Append(s, c) : s \in shorter, c \in alphabet }

\* Every concatenation of 1..n members of pool, sep between them.
RECURSIVE Joined(_, _, _)
Joined(pool, sep, n) ==
    IF n = 0 THEN { }
    ELSE pool \cup { a \o sep \o b : a \in Joined(pool, sep, n - 1), b \in pool }

FormulaAlphabet == { "H", "e", "2", "0", "(", ")" }
RawFormulas == StringsUpTo(FormulaAlphabet, MaxRawLen)

\* Formulas with groups, up to two levels of nesting.
Items == { << "H" >>, << "O", "2" >>, << "F", "e" >> }
Mults == { << "1" >>, << "3" >> }
Flat == Joined(Items, << >>, MaxItems)
Group(inner, mults) == { << "(" >> \o f \o << ")" >> \o m : f \in inner, m \in mults }
Level1 == Items \cup Group(Flat, Mults)
Pairs1 == Level1 \cup { a \o b : a \in Level1, b \in Level1 }
GroupedFormulas == Pairs1 \cup Group(Pairs1, { << "2" >>, << "1", "0" >> })

Formulas == RawFormulas \cup GroupedFormulas

EquationAlphabet == { "H", "2", "=", "+", " " }
RawEquations == StringsUpTo(EquationAlphabet, MaxRawLen)

Plus == << " ", "+", " " >>
Equals == << " ", "=", " " >>

IronPool == { << "F", "e" >>, << "O", "2" >>, << "F", "e", "2", "O", "3" >> }
AluminiumPool == { << "A", "l" >>, << "H", "C", "l" >>,
                   << "A", "l", "C", "l", "3" >>, << "H", "2" >> }
LimePool == { << "C", "a", "(", "O", "H", ")", "2" >>, << "H", "C", "l" >>,
              << "C", "a", "C", "l", "2" >>, << "H", "2", "O" >> }

EquationsOver(pool) ==
    { l \o Equals \o r : l \in Joined(pool, Plus, MaxTerms),
                         r \in Joined(pool, Plus, MaxTerms) }

Equations ==
    RawEquations \cup EquationsOver(IronPool) \cup EquationsOver(AluminiumPool)
        \cup EquationsOver(LimePool)

\* Equations whose terms carry a coefficient already: none, "2 " or "3".
Coefficients == { << >>, << "2", " " >>, << "3" >> }
WrittenTerms == { c \o t : c \in Coefficients, t \in IronPool }
WrittenEquations ==
    { a \o Equals \o b : a, b \in WrittenTerms }
        \cup { a \o Plus \o b \o Equals \o c : a, b, c \in WrittenTerms }

\* The equations the command is run on.
CommandEquations == RawEquations \cup EquationsOver(IronPool)

\* ------------------------------------------------------------------------
\* Optional arguments of the commands (cogs/physics.py, cogs/math.py)
\* ------------------------------------------------------------------------

\* An optional string argument of a command: None, or a text.
None == [ given |-> FALSE, text |-> << >> ]
Text(t) == [ given |-> TRUE, text |-> t ]

\* "if x" on an optional string: neither None nor "".
Truthy(x) == x.given /\ x.text # << >>

\* "x is not None and x.strip() != ''"
NonBlank(x) == x.given /\ Strip(x.text) # << >>

\* ------------------------------------------------------------------------
\* Texts and numbers of Python
\* ------------------------------------------------------------------------

\* \w of the patterns, over ASCII.
WordChar == Upper \cup Lower \cup Digit \cup { "_" }

\* s[i], or "" outside s.
At(s, i) == IF i >= 1 /\ i <= Len(s) THEN s[i] ELSE ""

\* First index >= i of s that holds no member of set.
RECURSIVE RunEnd(_, _, _)
RunEnd(s, i, set) == IF i <= Len(s) /\ s[i] \in set THEN RunEnd(s, i + 1, set) ELSE i

\* str.lower
LowerCase(s) ==
    [ k \in 1..Len(s) |->
        IF s[k] \in Upper THEN LowerSeq[IndexOf(UpperSeq, s[k])] ELSE s[k] ]

\* The end of (?:_?[set])* that starts at i.
RECURSIVE GroupEnd(_, _, _)
GroupEnd(s, i, set) ==
    IF At(s, i) \in set THEN GroupEnd(s, i + 1, set)
    ELSE IF At(s, i) = "_" /\ At(s, i + 1) \in set THEN GroupEnd(s, i + 2, set)
    ELSE i

\* The end of an exponent [eE][-+]?[0-9](?:_?[0-9])* at i, or i.
ExponentEnd(s, i) ==
    IF At(s, i) \in { "e", "E" } /\ At(s, i + 1) \in Digit
    THEN GroupEnd(s, i + 2, Digit)
    ELSE IF /\ At(s, i) \in { "e", "E" } /\ At(s, i + 1) \in { "+", "-" }
            /\ At(s, i + 2) \in Digit
    THEN GroupEnd(s, i + 3, Digit)
    ELSE i

\* The end of (?:[0-9](?:_?[0-9])*)? at i.
DigitPartEnd(s, i) == IF At(s, i) \in Digit THEN GroupEnd(s, i + 1, Digit) ELSE i

\* The end of the number with a point or an exponent at i, or i.
FloatEnd(s, i) ==
    IF At(s, i) \in Digit
    THEN IF At(s, DigitPartEnd(s, i)) = "."
         THEN ExponentEnd(s, DigitPartEnd(s, DigitPartEnd(s, i) + 1))
         ELSE IF ExponentEnd(s, DigitPartEnd(s, i)) > DigitPartEnd(s, i)
              THEN ExponentEnd(s, DigitPartEnd(s, i))
              ELSE i
    ELSE IF At(s, i) = "." /\ At(s, i + 1) \in Digit
    THEN ExponentEnd(s, DigitPartEnd(s, i + 1))
    ELSE i

\* The digits of s.
DigitsOf(s) == SelectSeq(s, LAMBDA c : c \in Digit)

\* The text of a decimal number from its exponent mark on (empty without
\* one), and the text before it.
ExponentOf(text) ==
    SubSeq(text, RunEnd(text, 1, Digit \cup { "_", "." }), Len(text))
MantissaOf(text) == SubSeq(text, 1, Len(text) - Len(ExponentOf(text)))

\* The floats of the model are rationals of 32-bit integers, which end at
\* MaxInt; NotRational stands for a float that is none of them: an
\* infinity, a nan, or a value out of this range.
MaxInt == 2147483647
NotRational == << 0, 0 >>

\* x * y is within half of MaxInt.
Fits(x, y) == x = 0 \/ y = 0 \/ Abs(x) <= (MaxInt \div 2) \div Abs(y)

\* a * b and a ** n (n an integer, a not zero for n < 0) on rationals,
\* NotRational where the result is not carried.
GMul(a, b) ==
    IF \/ a = NotRational \/ b = NotRational
       \/ ~Fits(a[1], b[1]) \/ ~Fits(a[2], b[2])
    THEN NotRational
    ELSE RMul(a, b)

RECURSIVE PowFrom(_, _, _)
PowFrom(a, n, acc) ==
    IF acc = NotRational \/ n = 0 THEN acc ELSE PowFrom(a, n - 1, GMul(acc, a))

GPow(a, n) ==
    IF a = NotRational THEN NotRational
    ELSE IF a \in { RZero, ROne } \/ n = 0 THEN (IF n = 0 THEN ROne ELSE a)
    ELSE IF a = RInt(0 - 1) THEN (IF n % 2 = 0 THEN ROne ELSE a)
    ELSE IF n < 0 THEN PowFrom(RDiv(ROne, a), 0 - n, ROne)
    ELSE PowFrom(a, n, ROne)

\* ------------------------------------------------------------------------
\* The quantity library (pint), as physics.py calls it through _UR and _Q
\* ------------------------------------------------------------------------

\* pint is no part of the repository.  What a call into it returns is
\* carried as the expression of the call: fn applied to the operands xs,
\* over the texts and the numbers that the handler passes in.
Str(text) == [ fn |-> "str", lit |-> text, xs |-> << >> ]
Number(x) == [ fn |-> "float", lit |-> x, xs |-> << >> ]
Call(fn, xs) == [ fn |-> fn, lit |-> << >>, xs |-> xs ]
NoQuantity == Call("None", << >>)

\* _Q = _UR.Quantity, called on a text, and on a number and a unit.
_Q(text) == Call("Quantity", << Str(text) >>)
Quantity(value, units) == Call("Quantity", << Number(value), Str(units) >>)

\* a * b, a / b, a + b, a - b, a ** n, a.units, a.to(units), and a in the
\* format "~P" of the f-strings.
QMul(a, b) == Call("*", << a, b >>)
QDiv(a, b) == Call("/", << a, b >>)
QAdd(a, b) == Call("+", << a, b >>)
QSub(a, b) == Call("-", << a, b >>)
QPow(a, n) == Call("**", << a, n >>)
QUnits(a) == Call("units", << a >>)
QTo(a, units) == Call("to", << a, units >>)
QFormat(a) == Call("format", << a, Str(<< "~", "P" >>) >>)

\* The exceptions of the library that the handlers meet.
ErrUndefinedUnit ==
    [ type |-> "UndefinedUnitError", msg |-> "is not defined in the unit registry" ]
ErrDimensionality == [ type |-> "DimensionalityError", msg |-> "Cannot convert" ]
\* Python's text of a division by zero: of ints, and of floats (inexact).
ErrZeroDivision(inexact) ==
    [ type |-> "ZeroDivisionError",
      msg  |-> IF inexact THEN "float division by zero" ELSE "division by zero" ]
PintErrors ==
    { ErrUndefinedUnit, ErrDimensionality, ErrZeroDivision(FALSE), ErrZeroDivision(TRUE) }

\* Whether a call into pint returns or raises, and what, is pint's affair.
\* The calls a handler makes are counted in the order in which it makes
\* them (a call of _Q, an operator on quantities, .units, .to, and each
\* format of a quantity in an f-string is one call): lib.at is the number of
\* the call that raises, 0 where every call returns, and lib.err is what
\* that call raises.  A handler makes MaxPintCalls calls at most.
MaxPintCalls == 15
AllReturn == [ at |-> 0, err |-> NoError ]
PintOutcomes ==
    { AllReturn } \cup { [ at |-> k, err |-> e ] : k \in 1..MaxPintCalls, e \in PintErrors }

\* What the first n calls of a handler raise: NoError where they return.
RaisedWithin(n, lib) == IF lib.at >= 1 /\ lib.at <= n THEN lib.err ELSE NoError

\* ------------------------------------------------------------------------
\* /phys ohm and /phys kinematics, from the arguments on
\* ------------------------------------------------------------------------

\* "_Q(x) if x else None": the quantity, if any.
Some(q) == [ some |-> TRUE, q |-> q ]
Nothing == [ some |-> FALSE, q |-> NoQuantity ]
Optional(x) == IF Truthy(x) THEN Some(_Q(x.text)) ELSE Nothing

\* The calls of _Q that these conditional expressions make for the
\* arguments xs.
Parses(xs) == Cardinality({ k \in 1..Len(xs) : Truthy(xs[k]) })

\* send_reply computing ephemeral as bool(public).
phys_send_reply_inverted(sent, done, content, embed, pub) ==
    Append(sent, [ content   |-> content,
                   embed     |-> embed,
                   ephemeral |-> pub,
                   via       |-> IF done THEN "followup" ELSE "response" ])

\* send_reply of cogs/physics.py.
phys_send_reply(sent, done, content, embed, pub) ==
    Append(sent, [ content   |-> content,
                   embed     |-> embed,
                   ephemeral |-> ~pub,
                   via       |-> IF done THEN "followup" ELSE "response" ])

\* The value of an embed field: a quantity in the format "~P", or the dash.
Field(name, val) ==
    [ name |-> name, dash |-> ~val.some,
      q |-> IF val.some THEN QFormat(val.q) ELSE NoQuantity ]

ProvideTwoContent == << "Provide exactly TWO among V, I, R." >>
\* The source writes an em dash where this text has a hyphen.
InvalidInputContent(e) == << "Invalid input - ", e.msg >>

\* The branch of phys_ohm that fills the value that is None.
ohm_fill(V, I, R) ==
    IF ~V.some THEN << Some(QMul(I.q, R.q)), I, R >>
    ELSE IF ~I.some THEN << V, Some(QDiv(V.q, R.q)), R >>
    ELSE << V, I, Some(QDiv(V.q, I.q)) >>

\* The except clause of phys_ohm and of phys_kinematics after a send a that
\* was awaited inside the try.
phys_except(a, sent, done, outcomes) ==
    IF a.pc = "raised" /\ Caught(a.escaped)
    THEN Await(phys_send_reply(sent, done, InvalidInputContent(a.escaped), NoEmbed, FALSE),
               Tail(outcomes))
    ELSE a

\* The except clause of phys_ohm and of phys_kinematics for an exception e
\* of a call into pint.
phys_raised(e, sent, done, outcomes) ==
    IF Caught(e)
    THEN Await(phys_send_reply(sent, done, InvalidInputContent(e), NoEmbed, FALSE),
               outcomes)
    ELSE [ pc |-> "raised", sent |-> sent, pending |-> << >>, escaped |-> e ]

\* The calls into pint that phys_ohm makes once two values are given: the
\* calls of _Q, the operator that fills the third value, and the formats
\* of the three.
ohm_calls(v, i, r) == Parses(<< v, i, r >>) + 1 + 3

\* The end of phys_ohm, from the filled values on: e is what the calls
\* into pint raised.
phys_ohm_reply(vals, e, pub, sent, done, outcomes) ==
    IF e # NoError
    THEN phys_raised(e, sent, done, outcomes)
    ELSE phys_except(
             Await(phys_send_reply(sent, done, NoContent,
                       [ title  |-> "Ohm's Law",
                         fields |-> << Field("V", vals[1]), Field("I", vals[2]),
                                       Field("R", vals[3]) >> ],
                       pub),
                   outcomes),
             sent, done, outcomes)

\* The number of arguments that count as given.
GivenCount(xs) == Cardinality({ k \in 1..Len(xs) : NonBlank(xs[k]) })

phys_ohm(v, i, r, pub, sent, done, lib, outcomes) ==
    IF GivenCount(<< v, i, r >>) # 2
    THEN phys_except(Await(phys_send_reply(sent, done, ProvideTwoContent, NoEmbed, FALSE),
                           outcomes),
                     sent, done, outcomes)
    ELSE phys_ohm_reply(ohm_fill(Optional(v), Optional(i), Optional(r)),
                        RaisedWithin(ohm_calls(v, i, r), lib),
                        pub, sent, done, outcomes)

\* The dict q of phys_kinematics, with the number n of the calls into pint
\* made so far.
Labels == << "s", "u", "v", "a", "t" >>

Known(st, ls) == \A l \in ls : st.q[l].some

\* q[label] = x, where the expression x makes k calls.
Assign(st, label, x, k) ==
    [ q |-> [ st.q EXCEPT ![label] = Some(x) ], n |-> st.n + k ]

\* 1) v = u + a t, solved for v, u, a, t in turn.
rule_v(st) ==
    IF ~st.q["v"].some /\ Known(st, { "u", "a", "t" })
    THEN Assign(st, "v", QAdd(st.q["u"].q, QMul(st.q["a"].q, st.q["t"].q)), 2)
    ELSE st

rule_u(st) ==
    IF ~st.q["u"].some /\ Known(st, { "v", "a", "t" })
    THEN Assign(st, "u", QSub(st.q["v"].q, QMul(st.q["a"].q, st.q["t"].q)), 2)
    ELSE st

rule_a(st) ==
    IF ~st.q["a"].some /\ Known(st, { "v", "u", "t" })
    THEN Assign(st, "a", QDiv(QSub(st.q["v"].q, st.q["u"].q), st.q["t"].q), 2)
    ELSE st

rule_t(st) ==
    IF ~st.q["t"].some /\ Known(st, { "a", "v", "u" })
    THEN Assign(st, "t", QDiv(QSub(st.q["v"].q, st.q["u"].q), st.q["a"].q), 2)
    ELSE st

\* 2) s = u t + (1/2) a t^2
rule_s_time(st) ==
    IF ~st.q["s"].some /\ Known(st, { "u", "t", "a" })
    THEN Assign(st, "s", QAdd(QMul(st.q["u"].q, st.q["t"].q),
                              QMul(QMul(Number(<< 1, 2 >>), st.q["a"].q),
                                   QPow(st.q["t"].q, Number(RInt(2))))),
                5)
    ELSE st

\* 3) v^2 = u^2 + 2 a s, solved for s and for v.
rule_s_speed(st) ==
    IF ~st.q["s"].some /\ Known(st, { "v", "u", "a" })
    THEN Assign(st, "s", QDiv(QSub(QPow(st.q["v"].q, Number(RInt(2))),
                                   QPow(st.q["u"].q, Number(RInt(2)))),
                              QMul(Number(RInt(2)), st.q["a"].q)),
                5)
    ELSE st

rule_v_speed(st) ==
    IF ~st.q["v"].some /\ Known(st, { "u", "a", "s" })
    THEN Assign(st, "v", QTo(QPow(QAdd(QPow(st.q["u"].q, Number(RInt(2))),
                                       QMul(QMul(Number(RInt(2)), st.q["a"].q),
                                            st.q["s"].q)),
                                  Number(<< 1, 2 >>)),
                             QUnits(st.q["u"].q)),
                7)
    ELSE st

\* The dict literal: the five arguments parsed in the order written.
kinematics_q(args) ==
    [ q |-> [ l \in Range(Labels) |-> Optional(args[l]) ],
      n |-> Parses([ k \in 1..Len(Labels) |-> args[Labels[k]] ]) ]

kinematics_solve(st) ==
    rule_v_speed(rule_s_speed(rule_s_time(rule_t(rule_a(rule_u(rule_v(st)))))))

\* The calls into pint that phys_kinematics makes: those of the dict and
\* of the rules, and the format of each value that is not None.
kinematics_calls(st) == st.n + Cardinality({ l \in Range(Labels) : st.q[l].some })

\* The end of phys_kinematics, from the filled dict on: e is what the
\* calls into pint raised.
phys_kinematics_reply(st, e, pub, sent, done, outcomes) ==
    IF e # NoError
    THEN phys_raised(e, sent, done, outcomes)
    ELSE phys_except(
             Await(phys_send_reply(sent, done, NoContent,
                       [ title  |-> "Kinematics (SUVAT)",
                         fields |-> [ k \in 1..Len(Labels) |->
                                        Field(Labels[k], st.q[Labels[k]]) ] ],
                       pub),
                   outcomes),
             sent, done, outcomes)

phys_kinematics(args, pub, sent, done, lib, outcomes) ==
    phys_kinematics_reply(
        kinematics_solve(kinematics_q(args)),
        RaisedWithin(kinematics_calls(kinematics_solve(kinematics_q(args))), lib),
        pub, sent, done, outcomes)

\* /phys const (lines 50-59) ----------------------------------------------

\* CONSTANTS of utils/safe_sympy.py: each symbol with its description, its
\* value as str() writes it in the f-string of the embed, and its unit.
PhysicalConstants ==
    << [ key |-> << "c" >>, desc |-> "Speed of light", val |-> "299792458", unit |-> "m/s" ],
       [ key |-> << "h" >>, desc |-> "Planck constant", val |-> "6.62607015e-34",
           unit |-> "J*s" ],
       [ key |-> << "k", "_", "B" >>, desc |-> "Boltzmann constant", val |-> "1.380649e-23",
           unit |-> "J/K" ],
       [ key |-> << "N", "_", "A" >>, desc |-> "Avogadro constant", val |-> "6.02214076e+23",
         unit |-> "1/mol" ],
       [ key |-> << "e" >>, desc |-> "Elementary charge", val |-> "1.602176634e-19",
           unit |-> "C" ],
       [ key |-> << "G" >>, desc |-> "Gravitational constant", val |-> "6.6743e-11",
         unit |-> "m^3/(kg*s^2)" ],
       [ key |-> << "g", "0" >>, desc |-> "Standard gravity", val |-> "9.80665",
           unit |-> "m/s^2" ],
       [ key |-> << "R" >>, desc |-> "Ideal gas constant", val |-> "8.314462618",
         unit |-> "J/(mol*K)" ] >>

ConstantNotFoundContent == << "Constant not found." >>

\* The embed of a constant: the title with the symbol, the description,
\* and the fields Value and Unit, each in a code span.
constant_embed(c) ==
    [ title       |-> << "Constant: ", c.key >>,
      description |-> c.desc,
      fields      |-> << [ name |-> "Value", value |-> << Backquote, c.val, Backquote >> ],
                         [ name |-> "Unit", value |-> << Backquote, c.unit, Backquote >> ] >> ]

\* phys_const has no try: an exception of its send leaves the handler.
phys_const(name, pub, sent, done, outcomes) ==
    IF ~\E k \in DOMAIN PhysicalConstants : PhysicalConstants[k].key = Strip(name)
    THEN Await(phys_send_reply(sent, done, ConstantNotFoundContent, NoEmbed, FALSE), outcomes)
    ELSE Await(phys_send_reply(sent, done, NoContent,
                   constant_embed(PhysicalConstants[
                       CHOOSE k \in DOMAIN PhysicalConstants :
                           PhysicalConstants[k].key = Strip(name)]),
                   pub),
               outcomes)

\* /phys convert (lines 67-76) --------------------------------------------

\* _Q(value, src_unit).to(dst_unit)
convert(value, src_unit, dst_unit) == QTo(Quantity(value, src_unit), Str(dst_unit))

\* The text of the reply: the value and the source unit in a code span,
\* and the converted quantity, in the format "~P", in bold.
ConversionContent(value, src_unit, q) ==
    << Backquote, value, " ", src_unit, Backquote, " = **", QFormat(q), "**" >>

\* The source writes an em dash where this text has a hyphen.
InvalidConversionContent(e) == << "Invalid conversion - ", e.msg >>

\* The except clause of phys_convert after a send a that was awaited inside
\* the try.
convert_except(a, sent, done, outcomes) ==
    IF a.pc = "raised" /\ Caught(a.escaped)
    THEN Await(phys_send_reply(sent, done, InvalidConversionContent(a.escaped), NoEmbed,
                               FALSE),
               Tail(outcomes))
    ELSE a

\* The end of phys_convert, from the converted quantity q on: e is what
\* the calls into pint raised.
phys_convert_reply(q, e, value, src_unit, pub, sent, done, outcomes) ==
    IF e # NoError
    THEN IF Caught(e)
         THEN Await(phys_send_reply(sent, done, InvalidConversionContent(e), NoEmbed,
                                    FALSE),
                    outcomes)
         ELSE [ pc |-> "raised", sent |-> sent, pending |-> << >>, escaped |-> e ]
    ELSE convert_except(
             Await(phys_send_reply(sent, done, ConversionContent(value, src_unit, q),
                                   NoEmbed, pub),
                   outcomes),
             sent, done, outcomes)

\* The calls into pint that phys_convert makes: _Q, .to and the format.
convert_calls == 3

phys_convert(value, src_unit, dst_unit, pub, sent, done, lib, outcomes) ==
    phys_convert_reply(convert(value, src_unit, dst_unit),
                       RaisedWithin(convert_calls, lib),
                       value, src_unit, pub, sent, done, outcomes)

\* ------------------------------------------------------------------------
\* utils/safe_sympy.py
\* ------------------------------------------------------------------------

\* _strip_outer_quotes: the text stripped, and without its first and last
\* character where both are the double quote or both the apostrophe (one
\* quote alone is both).
_strip_outer_quotes(s) ==
    IF /\ Strip(s) # << >>
       /\ Strip(s)[1] \in { "\"", "'" }
       /\ Strip(s)[Len(Strip(s))] = Strip(s)[1]
    THEN SubSeq(Strip(s), 2, Len(Strip(s)) - 1)
    ELSE Strip(s)

\* What sympy computes is carried as the expression of the calls made,
\* with the texts and numbers they are given: the function and its
\* arguments in order.
Term(fn, xs) == [ fn |-> fn, xs |-> xs ]
NoTerm == Term("", << >>)

\* sp.Symbol(name)
Symbol(name) == Term("Symbol", << name >>)

\* _parse_expr(text, local_dict=..., transformations=_TRANSFORMS)
_parse_expr(text, local_dict) == Term("parse_expr", << text, local_dict >>)

parse_expr_safe(s) == _parse_expr(_strip_outer_quotes(s), "_ALLOWED")

\* s.split("=", 1) of a text that holds "=": the text before the first
\* "=" and the text after it.
LeftOf(s) == Split(s, "=")[1]
RightOf(s) == SubSeq(s, Len(Split(s, "=")[1]) + 2, Len(s))

\* sp.Eq(parse_expr_safe(left), parse_expr_safe(right))
Eq(left, right) == Term("Eq", << parse_expr_safe(left), parse_expr_safe(right) >>)

solve_expr_or_equation(s, var) ==
    IF "=" \in Range(_strip_outer_quotes(s))
    THEN Term("solve", << Eq(LeftOf(_strip_outer_quotes(s)), RightOf(_strip_outer_quotes(s))),
                          Symbol(var) >>)
    ELSE Term("simplify", << parse_expr_safe(_strip_outer_quotes(s)) >>)

solve_eq_safe(left, right, var) == Term("solve", << Eq(left, right), Symbol(var) >>)

diff_safe(expr, var, order) ==
    Term("simplify", << Term("diff", << parse_expr_safe(expr), Symbol(var), order >>) >>)

\* The integral is definite when both limits are given (not None).
integrate_safe(expr, var, a, b) ==
    IF a.given /\ b.given
    THEN Term("simplify",
              << Term("integrate", << parse_expr_safe(expr), Symbol(var),
                                      parse_expr_safe(a.text), parse_expr_safe(b.text) >>) >>)
    ELSE Term("simplify", << Term("integrate", << parse_expr_safe(expr), Symbol(var) >>) >>)

\* The characters the pattern of a prime takes: the apostrophe, U+2019 and
\* U+2032 (named by their code points).
Primes == { "'", "U+2019", "U+2032" }

\* re.sub(r"\s+", " ", s)
RECURSIVE CollapseSpace(_, _)
CollapseSpace(s, i) ==
    IF i > Len(s) THEN << >>
    ELSE IF s[i] \in Whitespace
    THEN << " " >> \o CollapseSpace(s, RunEnd(s, i, Whitespace))
    ELSE << s[i] >> \o CollapseSpace(s, i + 1)

\* Where a match of (?<!\w)y\s*P{n}(?!\w) that starts at i ends, P a prime
\* (for n = 0 the pattern has no \s*), and 0 where none starts at i.
DepEnd(s, i, n) ==
    IF /\ At(s, i) = "y"
       /\ At(s, i - 1) \notin WordChar
       /\ \A k \in 0..(n - 1) :
             At(s, (IF n = 0 THEN i + 1 ELSE RunEnd(s, i + 1, Whitespace)) + k) \in Primes
       /\ At(s, (IF n = 0 THEN i + 1 ELSE RunEnd(s, i + 1, Whitespace)) + n) \notin WordChar
    THEN (IF n = 0 THEN i + 1 ELSE RunEnd(s, i + 1, Whitespace)) + n
    ELSE 0

\* re.sub of that pattern by the text new, from index i on.
RECURSIVE SubDep(_, _, _, _)
SubDep(s, i, n, new) ==
    IF i > Len(s) THEN << >>
    ELSE IF DepEnd(s, i, n) # 0 THEN new \o SubDep(s, DepEnd(s, i, n), n, new)
    ELSE << s[i] >> \o SubDep(s, i + 1, n, new)

\* The three substitutions of _prepare_ode_equation_text, with dep = "y":
\* y'' and then y' become derivatives of F(x), and then y becomes F(x).
Substituted(eq) ==
    SubDep(SubDep(SubDep(eq, 1, 2, << "D", "e", "r", "i", "v", "a", "t", "i", "v", "e", "(",
        "F", "(", "x", ")", ",", " ", "x", ",", " ", "x", ")" >>),
                  1, 1, << "D", "e", "r", "i", "v", "a", "t", "i", "v", "e", "(", "F", "(",
                      "x", ")", ",", " ", "x", ")" >>),
           1, 0, << "F", "(", "x", ")" >>)

\* _prepare_ode_equation_text(eq) with dep = "y" and indep = "x", as both
\* callers leave them: the text without its outer quotes, its whitespace
\* collapsed and stripped, is substituted, and set equal to 0 where it has
\* no "=".
_prepare_ode_equation_text(eq) ==
    IF "=" \in Range(Substituted(Strip(CollapseSpace(_strip_outer_quotes(eq), 1))))
    THEN Substituted(Strip(CollapseSpace(_strip_outer_quotes(eq), 1)))
    ELSE Substituted(Strip(CollapseSpace(_strip_outer_quotes(eq), 1))) \o << " ", "=", " ",
        "0" >>

\* _parse_ode_to_eq: the two sides of the prepared text, stripped, parsed
\* with F and Derivative among the names.
_parse_ode_to_eq(eq) ==
    Term("Eq", << _parse_expr(Strip(LeftOf(_prepare_ode_equation_text(eq))), "ode"),
                  _parse_expr(Strip(RightOf(_prepare_ode_equation_text(eq))), "ode") >>)

\* str(s): the characters of s as one text.
RECURSIVE str(_)
str(s) == IF s = << >> THEN "" ELSE Head(s) \o str(Tail(s))

\* The characters of the model that str.isprintable() rejects, the space
\* apart (the whitespace characters), and how repr() writes each.
Unprintable ==
    << "\t", "\n", "\r", "", "\f", "", "", "", "", "U+0085", "U+00A0", "U+1680",
       "U+2000", "U+2001", "U+2002", "U+2003", "U+2004", "U+2005", "U+2006", "U+2007",
       "U+2008", "U+2009", "U+200A", "U+2028", "U+2029", "U+202F", "U+205F", "U+3000" >>
UnprintableEscape ==
    << "\\t", "\\n", "\\r", "\\x0b", "\\x0c", "\\x1c", "\\x1d", "\\x1e", "\\x1f",
       "\\x85", "\\xa0", "\\u1680", "\\u2000", "\\u2001", "\\u2002", "\\u2003",
       "\\u2004", "\\u2005", "\\u2006", "\\u2007", "\\u2008", "\\u2009", "\\u200a",
       "\\u2028", "\\u2029", "\\u202f", "\\u205f", "\\u3000" >>

\* repr(s) of a str: between apostrophes, or between double quotes where s
\* holds an apostrophe and no double quote; a backslash, the quote used
\* and a character that is not printable are escaped.
ReprQuote(s) ==
    IF (\E k \in DOMAIN s : s[k] = "'") /\ ~(\E k \in DOMAIN s : s[k] = "\"")
    THEN "\"" ELSE "'"

ReprChar(c, quote) ==
    IF c = "\\" THEN "\\\\"
    ELSE IF c = quote THEN "\\" \o quote
    ELSE IF c \in Range(Unprintable) THEN UnprintableEscape[IndexOf(Unprintable, c)]
    ELSE c

RECURSIVE ReprFrom(_, _)
ReprFrom(s, quote) ==
    IF s = << >> THEN "" ELSE ReprChar(Head(s), quote) \o ReprFrom(Tail(s), quote)

repr(s) == ReprQuote(s) \o ReprFrom(s, ReprQuote(s)) \o ReprQuote(s)

\* The value of a decimal number without a sign: zero for a mantissa of
\* zeros, NotRational where the exponent has two digits or the digits and
\* the exponent pass nine, else the mantissa times the power of ten.
Decimal(text) ==
    IF \A k \in DOMAIN DigitsOf(MantissaOf(text)) : DigitsOf(MantissaOf(text))[k] = "0"
    THEN RZero
    ELSE IF \/ Len(DigitsOf(ExponentOf(text))) > 1
            \/ Len(DigitsOf(MantissaOf(text))) + StrToInt(DigitsOf(ExponentOf(text))) > 9
    THEN NotRational
    ELSE GMul(Rat(StrToInt(DigitsOf(MantissaOf(text))),
                  10 ^ Len(DigitsOf(SubSeq(text, RunEnd(text, 1, Digit \cup { "_" }),
                                           Len(MantissaOf(text)))))),
              GPow(RInt(10),
                   IF ExponentOf(text) = << >> THEN 0
                   ELSE IF At(ExponentOf(text), 2) = "-"
                   THEN 0 - StrToInt(DigitsOf(ExponentOf(text)))
                   ELSE StrToInt(DigitsOf(ExponentOf(text)))))

\* float(s) of a text: an optional sign before "inf", "infinity" or "nan"
\* in any case, or before a decimal number (digits, groups of them joined
\* by single underscores, with an optional point and exponent); ValueError
\* that names the text otherwise.  float() skips the whitespace around the
\* number, but takes the four separators U+001C to U+001F, which
\* str.strip() removes, for characters of the number.
FloatSpace == Whitespace \ { "", "", "", "" }

Stripped(s) ==
    IF \A k \in DOMAIN s : s[k] \in FloatSpace
    THEN << >>
    ELSE SubSeq(s,
             CHOOSE a \in DOMAIN s :
                 s[a] \notin FloatSpace /\ \A k \in 1..(a - 1) : s[k] \in FloatSpace,
             CHOOSE b \in DOMAIN s :
                 s[b] \notin FloatSpace /\ \A k \in (b + 1)..Len(s) : s[k] \in FloatSpace)

Unsigned(s) == IF At(Stripped(s), 1) \in { "+", "-" } THEN Tail(Stripped(s)) ELSE Stripped(s)

float(s) ==
    IF LowerCase(Unsigned(s)) \in { << "i", "n", "f" >>, << "i", "n", "f", "i", "n", "i", "t",
        "y" >>, << "n", "a", "n" >> }
    THEN [ mag |-> NotRational, err |-> NoError ]
    ELSE IF /\ Unsigned(s) # << >>
            /\ \/ DigitPartEnd(Unsigned(s), 1) = Len(Unsigned(s)) + 1
               \/ FloatEnd(Unsigned(s), 1) = Len(Unsigned(s)) + 1
    THEN [ mag |-> GMul(RInt(IF At(Stripped(s), 1) = "-" THEN 0 - 1 ELSE 1),
                        Decimal(Unsigned(s))),
           err |-> NoError ]
    ELSE [ mag |-> NotRational,
           err |-> [ type |-> "ValueError",
                     msg  |-> "could not convert string to float: " \o repr(s) ] ]

\* The parts of "x0, y0" and of "x0, y0, y'0": the text without its outer
\* quotes split at the commas, each part stripped.
ics_parts(ics) ==
    [ k \in 1..Len(Split(_strip_outer_quotes(ics), ",")) |->
        Strip(Split(_strip_outer_quotes(ics), ",")[k]) ]

\* The first exception among the numbers, in order.
RECURSIVE FirstInvalid(_)
FirstInvalid(xs) ==
    IF xs = << >> THEN NoError
    ELSE IF Head(xs).err # NoError THEN Head(xs).err
    ELSE FirstInvalid(Tail(xs))

\* The initial conditions of an ODE of order n: none (no numbers) where
\* ics is None or empty or has not n + 1 parts (they are then left out
\* without a word), else the floats of the parts, each a number or the
\* ValueError of a part that is no float.
initial_conditions(ics, n) ==
    IF ~Truthy(ics) \/ Len(ics_parts(ics.text)) # n + 1 THEN << >>
    ELSE [ k \in 1..(n + 1) |-> float(ics_parts(ics.text)[k]) ]

\* What a computation gives the handler: the value returned, or the
\* exception raised.
Returns(val) == [ ok |-> TRUE, val |-> val, err |-> NoError ]
Raises(e) == [ ok |-> FALSE, val |-> NoTerm, err |-> e ]

\* Whether sympy returns a value for the calls of a command or raises, and
\* what, is sympy's affair: lib is NoError where it returns, and the
\* exception where a call of it raises.
SympyErrors ==
    { [ type |-> "SyntaxError", msg |-> "invalid syntax" ],
      [ type |-> "NotImplementedError", msg |-> "not implemented" ] }
SympyOutcomes == { NoError } \cup SympyErrors

Computed(term, lib) == IF lib = NoError THEN Returns(term) ELSE Raises(lib)

\* dsolve_first_order and dsolve_second_order: E is the equation parsed
\* and ic the initial conditions read, the first float that fails
\* raising; then the equation is solved and the solution simplified.
dsolve(E, ic, lib) ==
    IF lib # NoError THEN Raises(lib)
    ELSE IF FirstInvalid(ic) # NoError THEN Raises(FirstInvalid(ic))
    ELSE Returns(Term("simplify", << Term("dsolve", << E, ic >>) >>))

dsolve_first_order(eq, ics, lib) ==
    dsolve(_parse_ode_to_eq(eq), initial_conditions(ics, 1), lib)
dsolve_second_order(eq, ics, lib) ==
    dsolve(_parse_ode_to_eq(eq), initial_conditions(ics, 2), lib)

\* ------------------------------------------------------------------------
\* cogs/math.py
\* ------------------------------------------------------------------------

\* send_reply of cogs/math.py.
math_send_reply(sent, done, content, embed, pub) ==
    Append(sent, [ content   |-> content,
                   embed     |-> embed,
                   ephemeral |-> ~pub,
                   via       |-> IF done THEN "followup" ELSE "response" ])

\* The value in a code span.
ResultContent(val) == << Backquote, val, Backquote >>

\* The prefixes of the error texts (the source writes an em dash where the
\* first two have a hyphen), and the text of an error.
InvalidInput == "Invalid input - "
CouldNotSolve == "Could not solve - "
CouldNotEvaluate == "Could not evaluate: "
MathErrorContent(prefix, e) == << prefix, e.msg >>

\* The except clause of a handler of cogs/math.py after a send a that was
\* awaited inside the try.
math_except(a, prefix, sent, done, outcomes) ==
    IF a.pc = "raised" /\ Caught(a.escaped)
    THEN Await(math_send_reply(sent, done, MathErrorContent(prefix, a.escaped), NoEmbed,
                               FALSE),
               Tail(outcomes))
    ELSE a

\* The try and except that every handler of cogs/math.py has around its
\* computation and its send: r is what the computation returned or raised.
math_reply(r, prefix, pub, sent, done, outcomes) ==
    IF r.ok
    THEN math_except(Await(math_send_reply(sent, done, ResultContent(r.val), NoEmbed, pub),
                           outcomes),
                     prefix, sent, done, outcomes)
    ELSE IF Caught(r.err)
    THEN Await(math_send_reply(sent, done, MathErrorContent(prefix, r.err), NoEmbed, FALSE),
               outcomes)
    ELSE [ pc |-> "raised", sent |-> sent, pending |-> << >>, escaped |-> r.err ]

math_calc(expr, var, lib, pub, sent, done, outcomes) ==
    math_reply(Computed(solve_expr_or_equation(expr, var), lib),
               InvalidInput, pub, sent, done, outcomes)

math_factor(expr, lib, pub, sent, done, outcomes) ==
    math_reply(Computed(Term("factor", << parse_expr_safe(expr) >>), lib),
               InvalidInput, pub, sent, done, outcomes)

math_expand(expr, lib, pub, sent, done, outcomes) ==
    math_reply(Computed(Term("expand", << parse_expr_safe(expr) >>), lib),
               InvalidInput, pub, sent, done, outcomes)

math_limit(expr, var, to, lib, pub, sent, done, outcomes) ==
    math_reply(Computed(Term("limit", << parse_expr_safe(expr), Symbol(var),
                                         parse_expr_safe(to) >>),
                        lib),
               InvalidInput, pub, sent, done, outcomes)

\* The series is taken to n + 1 and its order term removed.
math_series(expr, var, x0, n, lib, pub, sent, done, outcomes) ==
    math_reply(Computed(Term("removeO",
                             << Term("series", << parse_expr_safe(expr), Symbol(var),
                                                  parse_expr_safe(x0), n + 1 >>) >>),
                        lib),
               InvalidInput, pub, sent, done, outcomes)

math_solve(left, right, var, lib, pub, sent, done, outcomes) ==
    math_reply(Computed(solve_eq_safe(left, right, var), lib),
               InvalidInput, pub, sent, done, outcomes)

math_diff(expr, var, order, lib, pub, sent, done, outcomes) ==
    math_reply(Computed(Term("simplify",
                             << Term("expand_trig", << diff_safe(expr, var, order) >>) >>),
                        lib),
               InvalidInput, pub, sent, done, outcomes)

math_integrate(expr, var, a, b, lib, pub, sent, done, outcomes) ==
    math_reply(Computed(integrate_safe(expr, var, a, b), lib),
               InvalidInput, pub, sent, done, outcomes)

math_dsolve1(eq, ics, lib, pub, sent, done, outcomes) ==
    math_reply(dsolve_first_order(eq, ics, lib), CouldNotSolve, pub, sent, done, outcomes)

math_dsolve2(eq, ics, lib, pub, sent, done, outcomes) ==
    math_reply(dsolve_second_order(eq, ics, lib), CouldNotSolve, pub, sent, done, outcomes)

\* The callback of the context menu "Compute with /math": the text of the
\* message, stripped, is parsed and simplified, and the reply is private
\* always.
_ctx_compute_callback(content, lib, sent, done, outcomes) ==
    math_reply(Computed(Term("simplify", << parse_expr_safe(Strip(content)) >>), lib),
               CouldNotEvaluate, FALSE, sent, done, outcomes)

\* ------------------------------------------------------------------------
\* /help and its menu (cogs/help.py)
\* ------------------------------------------------------------------------

\* HELP_PAGES: the sections in the order of the dict, each with the function
\* that builds its embed; the four buttons carry the sections' names.
Sections == << "overview", "math", "physics", "chemistry" >>

\* The embeds of the overview and, in HELP_PAGES, of the four pages, by
\* title and the opening of their text (the source writes an em dash in the
\* first title).
help_embed_overview ==
    [ title |-> "HPY Science Bot - /help",
      description |-> << "This bot is an educational assistant" >> ]

HELP_PAGES ==
    [ overview  |-> help_embed_overview,
      math      |-> [ title |-> "Topic: Math (/math)",
                      description |-> << "Commands for algebra and calculus" >> ],
      physics   |-> [ title |-> "Topic: Physics (/phys)",
                      description |->
                          << "Commands for units, constants, and common formulas" >> ],
      chemistry |-> [ title |-> "Topic: Chemistry (/chem)",
                      description |-> << "Commands for balancing chemical equations" >> ] ]

\* _set_active_styles without its first loop: the button of the section is
\* made primary and the others keep their style.
_set_active_styles_no_reset(view) ==
    [ view EXCEPT !.styles =
        [ b \in Range(Sections) |-> IF b = view.section THEN "primary" ELSE view.styles[b] ] ]

\* Every button secondary, then the button of the section, if any, primary.
_set_active_styles(view) ==
    [ view EXCEPT !.styles =
        [ b \in Range(Sections) |-> IF b = view.section THEN "primary" ELSE "secondary" ] ]

\* HelpView.__init__, from the styles the button decorators declare.
HelpView(author_id) ==
    _set_active_styles([ author_id |-> author_id,
                         section   |-> "overview",
                         styles    |-> [ b \in Range(Sections) |->
                                          IF b = "overview" THEN "primary"
                                          ELSE "secondary" ] ])

\* interaction_check letting every user through.
interaction_check_open(view, user) == TRUE

\* What interaction_check returns; the notice is sent when it is FALSE.
interaction_check(view, user) == ~(user # 0 /\ user # view.author_id)

NoticeContent ==
    << "This help menu belongs to someone else. Use ", Backquote, "/help",
       Backquote, " to open your own." >>

\* The object fields of the view after _switch(section).
_switch(view, section) == _set_active_styles([ view EXCEPT !.section = section ])

\* Before /help has run there is no view and no message.
NoView == [ author_id |-> 0, section |-> "", styles |-> [ b \in Range(Sections) |-> "" ] ]
NoMessage == [ embed |-> NoEmbed, view |-> FALSE, styles |-> NoView.styles ]

\* send_reply of cogs/help.py, which takes the view too.
help_send_reply(sent, done, content, embed, view, pub) ==
    Append(sent, [ content   |-> content,
                   embed     |-> embed,
                   view      |-> view,
                   ephemeral |-> ~pub,
                   via       |-> IF done THEN "followup" ELSE "response" ])

\* help_cmd for the view it has constructed: the overview with the view.
help_cmd(pub, sent, done, outcomes) ==
    Await(help_send_reply(sent, done, NoContent, help_embed_overview, TRUE, pub), outcomes)

\* ------------------------------------------------------------------------
\* The interactions the commands are run on
\* ------------------------------------------------------------------------

\* The arguments of the commands: which command, and its options.
NoArgs == [ cmd |-> "none" ]

OhmArgs ==
    { [ cmd |-> "ohm", v |-> v, i |-> i, r |-> r ] :
        v \in { None, Text(<< >>), Text(<< " " >>), Text(<< "6", " ", "V" >>) },
        i \in { None, Text(<< >>), Text(<< " " >>), Text(<< "2", " ", "A" >>),
                Text(<< "0", " ", "A" >>) },
        r \in { None, Text(<< " " >>), Text(<< "3", " ", "o", "h", "m" >>) } }

KinematicsArgs ==
    { [ cmd |-> "kinematics", s |-> s, u |-> u, v |-> v, a |-> a, t |-> t ] :
        s \in { None, Text(<< "4", " ", "m" >>) },
        u \in { None, Text(<< "3", " ", "m", "/", "s" >>) },
        v \in { None, Text(<< "5", " ", "m", "/", "s" >>) },
        a \in { None, Text(<< "2", " ", "m", "/", "s", "^", "2" >>) },
        t \in { None, Text(<< "1", " ", "s" >>) } }
    \cup
    { [ cmd |-> "kinematics", s |-> None, u |-> u,
        v |-> Text(<< "5", " ", "m", "/", "s" >>), a |-> None, t |-> t ] :
        u \in { Text(<< "3", "6", " ", "k", "m", "/", "h" >>), Text(<< >>) },
        t \in { None, Text(<< "1", " ", "s" >>) } }
    \cup
    { [ cmd |-> "kinematics", s |-> Text(<< " " >>),
        u |-> Text(<< "3", " ", "m", "/", "s" >>), v |-> None,
        a |-> Text(<< "2", " ", "m", "/", "s", "^", "2" >>),
        t |-> Text(<< "1", " ", "s" >>) ] }

\* The options of the other commands, and the message the context menu is
\* used on.
ConstArgs ==
    { [ cmd |-> "const", name |-> n ] : n \in { << "c" >>, << " ", "g", "0", " " >>, << "G" >>,
        << "q" >>, << >> } }

ConvertArgs ==
    { [ cmd |-> "convert", value |-> RInt(10), src_unit |-> s, dst_unit |-> d ] :
        s \in { << "m", "/", "s" >>, << "d", "e", "g", "C" >>, << "q" >> },
        d \in { << "k", "m", "/", "h" >>, << "K" >> } }

CalcArgs ==
    { [ cmd |-> "calc", expr |-> e, var |-> << "x" >> ] :
        e \in { << "(", "2", "+", "3", ")", "^", "3" >>, << "x", "^", "2", "=", "9" >>,
            << "\"", "x", "=", "1", "\"" >>, << "'", "2", "'" >> } }

FactorArgs == { [ cmd |-> "factor", expr |-> e ] : e \in { << "x", "^", "2", "-", "9" >>,
    << "\"", "x", "\"" >> } }

ExpandArgs == { [ cmd |-> "expand", expr |-> e ] : e \in { << "(", "x", "+", "1", ")", "^",
    "2" >>, << " ", "x", " " >> } }

LimitArgs ==
    { [ cmd |-> "limit", expr |-> << "s", "i", "n", "(", "x", ")", "/", "x" >>,
        var |-> << "x" >>, to |-> t ] : t \in { << "0" >>, << "o", "o" >> } }

SeriesArgs ==
    { [ cmd |-> "series", expr |-> << "e", "x", "p", "(", "x", ")" >>, var |-> << "x" >>,
        x0 |-> << "0" >>, n |-> n ] :
        n \in { 0, 5 } }

SolveArgs ==
    { [ cmd |-> "solve", left |-> << "2", "x", "+", "3" >>, right |-> r,
        var |-> << "x" >> ] : r \in { << "7" >>, << >> } }

DiffArgs ==
    { [ cmd |-> "diff", expr |-> << "s", "i", "n", "(", "x", ")", "^", "2" >>,
        var |-> << "x" >>, order |-> k ] : k \in { 1, 2 } }

IntegrateArgs ==
    { [ cmd |-> "integrate", expr |-> << "s", "i", "n", "(", "x", ")" >>, var |-> << "x" >>,
        a |-> a, b |-> b ] :
        a \in { None, Text(<< "0" >>) }, b \in { None, Text(<< "p", "i" >>) } }

Dsolve1Args ==
    { [ cmd |-> "dsolve1", eq |-> e, ics |-> i ] :
        e \in { << "y", "'", " ", "+", " ", "y", " ", "=", " ", "x" >>, << "\"", "y", " ", " ",
            "'", " ", "+", " ", "2", "y", "\"" >>, << "x", "y", "'", " ", "=", " ", "y" >> },
        i \in { None, Text(<< >>), Text(<< "0", ",", " ", "1" >>), Text(<< "\"", "0", ",", "1",
            "e", "1", "\"" >>), Text(<< "0", ",", " ", "a" >>), Text(<< "0" >>) } }

Dsolve2Args ==
    { [ cmd |-> "dsolve2", eq |-> e, ics |-> i ] :
        e \in { << "y", "'", "'", " ", "-", " ", "3", "y", "'", " ", "+", " ", "2", "y", " ",
            "=", " ", "0" >>, << "y", "'", "'", "'", " ", "+", " ", "y" >> },
        i \in { None, Text(<< "0", ",", " ", "1", ",", " ", "-", ".", "5" >>), Text(<< "0",
            ",", " ", "1" >>), Text(<< "0", ",", " ", "1", ",", " ", "1", "_" >>) } }

CtxArgs == { [ cmd |-> "ctx_compute", content |-> c ] : c \in { << " ", "(", "2", "+", "3",
    ")", "^", "3", " " >>, << "h", "e", "l", "l", "o" >> } }

MathArgs ==
    CalcArgs \cup FactorArgs \cup ExpandArgs \cup LimitArgs \cup SeriesArgs \cup SolveArgs
        \cup DiffArgs \cup IntegrateArgs \cup Dsolve1Args \cup Dsolve2Args

\* The users who open a help menu and press its buttons, and how many
\* presses a menu gets.
NumUsers == 2
MaxClicks == 2
Users == 1..NumUsers

HelpArgs == { [ cmd |-> "help", user |-> u ] : u \in Users }

\* The formulas the loop of _expand_groups is followed to its end on: every
\* string up to MaxLoopLen over ( ) H 2, and formulas of several groups,
\* side by side and nested, closed and not.
MaxLoopLen == 4

LoopFormulas ==
    StringsUpTo({ "(", ")", "H", "2" }, MaxLoopLen)
        \cup { << "(", "H", ")", "2", "(", "H", ")", "2" >>,
               << "(", "(", "H", ")", "2", ")", "2" >>,
               << "(", "(", "(", "H", ")", "2", ")", "2", ")", "2" >>,
               << "(", "H", "e", ")", "2", "0", "(", "(", "H", ")", "3", ")", "3", "(", "H" >> }

\* ------------------------------------------------------------------------
\* cogs/math.py: the context menu
\* ------------------------------------------------------------------------

\* How many READY events the gateway delivers (one per connect and
\* reconnect without resume).
MaxReady == 6

\* on_ready without the hasattr test.
on_ready_unguarded(registered, menus) ==
    IF \E k \in DOMAIN menus : menus[k] = "Compute with /math"
    THEN [ registered |-> TRUE, tree |-> menus, outcome |-> "raised" ]
    ELSE [ registered |-> TRUE, tree |-> Append(menus, "Compute with /math"),
           outcome |-> "added" ]

\* MathCog.on_ready, which has no await: the attribute and the context
\* menus after it, and how the listener ended.  tree.add_command raises
\* CommandAlreadyRegistered for a context menu whose name the tree holds
\* and adds it otherwise.
on_ready(registered, menus) ==
    IF ~registered
    THEN IF \E k \in DOMAIN menus : menus[k] = "Compute with /math"
         THEN [ registered |-> TRUE, tree |-> menus, outcome |-> "raised" ]
         ELSE [ registered |-> TRUE, tree |-> Append(menus, "Compute with /math"),
                outcome |-> "added" ]
    ELSE [ registered |-> registered, tree |-> menus, outcome |-> "skipped" ]

\* ------------------------------------------------------------------------
\* State
\* ------------------------------------------------------------------------

VARIABLES
    op,        \* the operation that has run: "none" before it has
    input,     \* its argument: the formula or the equation
    public,    \* the public option of the command
    counts,    \* what parse_formula returned
    result,    \* what balance_equation returned or raised
    called,    \* whether the command called balance_equation
    sent,      \* the messages the interaction has been sent, in order
    escaped,   \* the exception that left parse_formula or the command, if any
    args,      \* the command of the interaction and its options
    expanded,  \* the local variable formula of _expand_groups
    view,      \* the fields of the HelpView object
    message,   \* what the help message shows
    log,       \* the button interactions the view has handled, in order
    ready,     \* the on_ready listener tasks of the MathCog, in order of dispatch
    _ctx_registered,  \* whether the MathCog has the attribute _ctx_registered
    tree,      \* the context menus of the bot's command tree, by name
    pending,   \* the message whose send the command awaits, if it awaits one
    outcomes,  \* how the sends the command has awaited ended, in order
    pint,      \* which call of the command into pint raises, if any, and what
    sympy,     \* whether sympy returns for the command, or what it raises
    frame      \* the handler suspended at an await: how it runs on, for
               \* each way the sends it awaits from its entry on can end

vars ==
    << op, input, public, counts, result, called, sent, escaped, args, expanded, view,
       message, log, ready, _ctx_registered, tree, pending, outcomes, pint, sympy, frame >>

\* No handler has been entered.
NoFrame == [ outs \in { } |-> NoError ]

\* The outcomes a send can have: it returns, it raises an exception of
\* discord.py, or the task of the handler is cancelled while it waits.
ErrHTTP == [ type |-> "HTTPException", msg |-> "send failed" ]
ErrCancelled == [ type |-> "CancelledError", msg |-> "" ]
SendOutcomes == { NoError, ErrHTTP, ErrCancelled }

\* The ways the sends a handler awaits can end, in the order it awaits
\* them: it awaits a send, and a second one, in its except clause, only
\* after the first has raised.
SendTraces ==
    { << >> } \cup { << o >> : o \in SendOutcomes }
        \cup { << e, o >> : e \in SendOutcomes \ { NoError }, o \in SendOutcomes }

\* No interaction has been handled yet.
Unanswered ==
    /\ op = "none"
    /\ counts = << >>
    /\ result = Failure(NoError)
    /\ called = FALSE
    /\ sent = << >>
    /\ escaped = NoError
    /\ expanded = << >>
    /\ view = NoView
    /\ message = NoMessage
    /\ log = << >>
    /\ pending = << >>
    /\ outcomes = << >>
    /\ frame = NoFrame

\* Nothing has run yet, on_ready neither.
Fresh ==
    /\ Unanswered
    /\ ready = << >>
    /\ _ctx_registered = FALSE
    /\ tree = << >>

Idle == Fresh /\ args = NoArgs /\ pint = AllReturn /\ sympy = NoError

\* parse_formula(input)
ParseFormula ==
    /\ op = "none"
    /\ op' = "parse_formula"
    /\ counts' = parse_formula(input)
    /\ escaped' = NoError       \* no statement of the parser raises
    /\ UNCHANGED << input, public, result, called, sent, args, expanded, view, message,
                    log, ready, _ctx_registered, tree, pending, outcomes, pint, sympy,
                    frame >>

\* balance_equation(input)
BalanceEquation ==
    /\ op = "none"
    /\ op' = "balance_equation"
    /\ result' = balance_equation(input)
    /\ called' = TRUE
    /\ UNCHANGED << input, public, counts, sent, escaped, args, expanded, view, message,
                    log, ready, _ctx_registered, tree, pending, outcomes, pint, sympy,
                    frame >>

\* /chem balance equation:input public:public, on a fresh interaction: the
\* handler runs up to its first await, or to its end when it reaches none.
ChemBalance ==
    /\ op = "none"
    /\ \E r \in { chem_balance(input, public, sent, sent # << >>, << >>) } :
           /\ frame' = [ outs \in SendTraces |->
                           IF r.called
                           THEN chem_balance_reply(r.result, public, sent, sent # << >>,
                                                   outs).reply
                           ELSE chem_balance(input, public, sent, sent # << >>,
                                             outs).reply ]
           /\ op' = IF r.reply.pc = "await" THEN "chem_balance: await" ELSE "chem_balance"
           /\ sent' = r.reply.sent
           /\ pending' = r.reply.pending
           /\ escaped' = r.reply.escaped
           /\ called' = r.called
           /\ result' = r.result
    /\ UNCHANGED << input, public, counts, args, expanded, view, message, log, ready,
                    _ctx_registered, tree, outcomes, pint, sympy >>

\* The send that the command awaits ends, with any outcome, and the handler
\* runs on: to its end, or to the await of the send in its except clause.
\* The help message is shown once its send has returned.
SendCompletes ==
    /\ pending # << >>
    /\ \E o \in SendOutcomes :
         \E r \in { frame[Append(outcomes, o)] } :
           /\ outcomes' = Append(outcomes, o)
           /\ op' = IF r.pc = "await" THEN op
                    ELSE [ none |-> "chem_balance", ohm |-> "phys_ohm",
                           kinematics |-> "phys_kinematics", help |-> "help",
                           const |-> "phys_const",
                           convert |-> "phys_convert",
                           calc |-> "math_calc",
                           factor |-> "math_factor",
                           expand |-> "math_expand",
                           limit |-> "math_limit",
                           series |-> "math_series",
                           solve |-> "math_solve",
                           diff |-> "math_diff",
                           integrate |-> "math_integrate",
                           dsolve1 |-> "math_dsolve1",
                           dsolve2 |-> "math_dsolve2",
                           ctx_compute |-> "_ctx_compute_callback" ][args.cmd]
           /\ sent' = r.sent
           /\ pending' = r.pending
           /\ escaped' = r.escaped
           /\ message' = IF args.cmd = "help" /\ o = NoError
                         THEN [ embed |-> pending[1].embed, view |-> pending[1].view,
                                styles |-> view.styles ]
                         ELSE message
    /\ UNCHANGED << input, public, counts, result, called, args, expanded, view, log,
                    ready, _ctx_registered, tree, pint, sympy, frame >>

\* The formula parser on every formula of Formulas.
InitParse == Idle /\ input \in Formulas /\ public = FALSE
SpecParse == InitParse /\ [][ParseFormula]_vars

\* The balancer on every equation of Equations.
InitBalance == Idle /\ input \in Equations /\ public = FALSE
SpecBalance == InitBalance /\ [][BalanceEquation]_vars

\* balance_equation on equations written with coefficients.
InitCoeff == Idle /\ input \in WrittenEquations /\ public = FALSE
SpecCoeff == InitCoeff /\ [][BalanceEquation]_vars

\* /phys ohm v: i: r: public:, on a fresh interaction, up to its first
\* await
PhysOhm ==
    /\ op = "none"
    /\ args.cmd = "ohm"
    /\ op' = "phys_ohm: await"
    /\ frame' = [ outs \in SendTraces |->
                    phys_ohm(args.v, args.i, args.r, public, sent, sent # << >>, pint,
                        outs) ]
    /\ pending' = frame'[<< >>].pending
    /\ UNCHANGED << input, public, counts, result, called, sent, escaped, args, expanded,
                    view, message, log, ready, _ctx_registered, tree, outcomes, pint,
                    sympy >>

\* /phys kinematics s: u: v: a: t: public:, on a fresh interaction, up to
\* its first await
PhysKinematics ==
    /\ op = "none"
    /\ args.cmd = "kinematics"
    /\ op' = "phys_kinematics: await"
    /\ frame' = [ outs \in SendTraces |->
                    phys_kinematics(args, public, sent, sent # << >>, pint,
                        outs) ]
    /\ pending' = frame'[<< >>].pending
    /\ UNCHANGED << input, public, counts, result, called, sent, escaped, args, expanded,
                    view, message, log, ready, _ctx_registered, tree, outcomes, pint,
                    sympy >>

\* /help public:, on a fresh interaction of user args.user, up to its await:
\* the view is constructed and sent with the overview.
HelpCmd ==
    /\ op = "none"
    /\ args.cmd = "help"
    /\ op' = "help: await"
    /\ view' = HelpView(args.user)
    /\ frame' = [ outs \in SendTraces |->
                    help_cmd(public, sent, sent # << >>,
                        outs) ]
    /\ pending' = frame'[<< >>].pending
    /\ UNCHANGED << input, public, counts, result, called, sent, escaped, args, expanded,
                    message, log, ready, _ctx_registered, tree, outcomes, pint, sympy >>

\* /phys const name: public:, on a fresh interaction, up to its await
PhysConst ==
    /\ op = "none"
    /\ args.cmd = "const"
    /\ op' = "phys_const: await"
    /\ frame' = [ outs \in SendTraces |->
                    phys_const(args.name, public, sent, sent # << >>,
                        outs) ]
    /\ pending' = frame'[<< >>].pending
    /\ UNCHANGED << input, public, counts, result, called, sent, escaped, args, expanded,
                    view, message, log, ready, _ctx_registered, tree, outcomes, pint,
                    sympy >>

\* /phys convert value: src_unit: dst_unit: public:, up to its first await
PhysConvert ==
    /\ op = "none"
    /\ args.cmd = "convert"
    /\ op' = "phys_convert: await"
    /\ frame' = [ outs \in SendTraces |->
                    phys_convert(args.value, args.src_unit, args.dst_unit, public, sent,
                        sent # << >>, pint,
                        outs) ]
    /\ pending' = frame'[<< >>].pending
    /\ UNCHANGED << input, public, counts, result, called, sent, escaped, args, expanded,
                    view, message, log, ready, _ctx_registered, tree, outcomes, pint,
                    sympy >>

\* /math calc expr: var: public:, up to its first await
MathCalc ==
    /\ op = "none"
    /\ args.cmd = "calc"
    /\ op' = "math_calc: await"
    /\ frame' = [ outs \in SendTraces |->
                    math_calc(args.expr, args.var, sympy, public, sent, sent # << >>,
                        outs) ]
    /\ pending' = frame'[<< >>].pending
    /\ UNCHANGED << input, public, counts, result, called, sent, escaped, args, expanded,
                    view, message, log, ready, _ctx_registered, tree, outcomes, pint,
                    sympy >>

\* /math factor expr: public:
MathFactor ==
    /\ op = "none"
    /\ args.cmd = "factor"
    /\ op' = "math_factor: await"
    /\ frame' = [ outs \in SendTraces |->
                    math_factor(args.expr, sympy, public, sent, sent # << >>,
                        outs) ]
    /\ pending' = frame'[<< >>].pending
    /\ UNCHANGED << input, public, counts, result, called, sent, escaped, args, expanded,
                    view, message, log, ready, _ctx_registered, tree, outcomes, pint,
                    sympy >>

\* /math expand expr: public:
MathExpand ==
    /\ op = "none"
    /\ args.cmd = "expand"
    /\ op' = "math_expand: await"
    /\ frame' = [ outs \in SendTraces |->
                    math_expand(args.expr, sympy, public, sent, sent # << >>,
                        outs) ]
    /\ pending' = frame'[<< >>].pending
    /\ UNCHANGED << input, public, counts, result, called, sent, escaped, args, expanded,
                    view, message, log, ready, _ctx_registered, tree, outcomes, pint,
                    sympy >>

\* /math limit expr: var: to: public:
MathLimit ==
    /\ op = "none"
    /\ args.cmd = "limit"
    /\ op' = "math_limit: await"
    /\ frame' = [ outs \in SendTraces |->
                    math_limit(args.expr, args.var, args.to, sympy, public, sent, sent # << >>,
                        outs) ]
    /\ pending' = frame'[<< >>].pending
    /\ UNCHANGED << input, public, counts, result, called, sent, escaped, args, expanded,
                    view, message, log, ready, _ctx_registered, tree, outcomes, pint,
                    sympy >>

\* /math series expr: var: x0: n: public:
MathSeries ==
    /\ op = "none"
    /\ args.cmd = "series"
    /\ op' = "math_series: await"
    /\ frame' = [ outs \in SendTraces |->
                    math_series(args.expr, args.var, args.x0, args.n, sympy, public, sent,
                        sent # << >>,
                        outs) ]
    /\ pending' = frame'[<< >>].pending
    /\ UNCHANGED << input, public, counts, result, called, sent, escaped, args, expanded,
                    view, message, log, ready, _ctx_registered, tree, outcomes, pint,
                    sympy >>

\* /math solve left: right: var: public:
MathSolve ==
    /\ op = "none"
    /\ args.cmd = "solve"
    /\ op' = "math_solve: await"
    /\ frame' = [ outs \in SendTraces |->
                    math_solve(args.left, args.right, args.var, sympy, public, sent,
                        sent # << >>,
                        outs) ]
    /\ pending' = frame'[<< >>].pending
    /\ UNCHANGED << input, public, counts, result, called, sent, escaped, args, expanded,
                    view, message, log, ready, _ctx_registered, tree, outcomes, pint,
                    sympy >>

\* /math diff expr: var: order: public:
MathDiff ==
    /\ op = "none"
    /\ args.cmd = "diff"
    /\ op' = "math_diff: await"
    /\ frame' = [ outs \in SendTraces |->
                    math_diff(args.expr, args.var, args.order, sympy, public, sent,
                        sent # << >>,
                        outs) ]
    /\ pending' = frame'[<< >>].pending
    /\ UNCHANGED << input, public, counts, result, called, sent, escaped, args, expanded,
                    view, message, log, ready, _ctx_registered, tree, outcomes, pint,
                    sympy >>

\* /math integrate expr: var: a: b: public:
MathIntegrate ==
    /\ op = "none"
    /\ args.cmd = "integrate"
    /\ op' = "math_integrate: await"
    /\ frame' = [ outs \in SendTraces |->
                    math_integrate(args.expr, args.var, args.a, args.b, sympy, public, sent,
                        sent # << >>,
                        outs) ]
    /\ pending' = frame'[<< >>].pending
    /\ UNCHANGED << input, public, counts, result, called, sent, escaped, args, expanded,
                    view, message, log, ready, _ctx_registered, tree, outcomes, pint,
                    sympy >>

\* /math dsolve1 eq: ics: public:
MathDsolve1 ==
    /\ op = "none"
    /\ args.cmd = "dsolve1"
    /\ op' = "math_dsolve1: await"
    /\ frame' = [ outs \in SendTraces |->
                    math_dsolve1(args.eq, args.ics, sympy, public, sent, sent # << >>,
                        outs) ]
    /\ pending' = frame'[<< >>].pending
    /\ UNCHANGED << input, public, counts, result, called, sent, escaped, args, expanded,
                    view, message, log, ready, _ctx_registered, tree, outcomes, pint,
                    sympy >>

\* /math dsolve2 eq: ics: public:
MathDsolve2 ==
    /\ op = "none"
    /\ args.cmd = "dsolve2"
    /\ op' = "math_dsolve2: await"
    /\ frame' = [ outs \in SendTraces |->
                    math_dsolve2(args.eq, args.ics, sympy, public, sent, sent # << >>,
                        outs) ]
    /\ pending' = frame'[<< >>].pending
    /\ UNCHANGED << input, public, counts, result, called, sent, escaped, args, expanded,
                    view, message, log, ready, _ctx_registered, tree, outcomes, pint,
                    sympy >>

\* A user picks "Compute with /math" in the context menu of a message, which
\* the tree holds once on_ready has added it: the callback up to its first
\* await
CtxCompute ==
    /\ op = "none"
    /\ args.cmd = "ctx_compute"
    /\ \E k \in DOMAIN tree : tree[k] = "Compute with /math"
    /\ op' = "_ctx_compute_callback: await"
    /\ frame' = [ outs \in SendTraces |->
                    _ctx_compute_callback(args.content, sympy, sent, sent # << >>,
                        outs) ]
    /\ pending' = frame'[<< >>].pending
    /\ UNCHANGED << input, public, counts, result, called, sent, escaped, args, expanded,
                    view, message, log, ready, _ctx_registered, tree, outcomes, pint,
                    sympy >>

\* A user presses the button of a section on the help message: the view
\* runs interaction_check and, when that returns True, the button's
\* callback, which is _switch(section), up to its await of edit_message
\* with the embed of the page and the view as it then is; for another user
\* interaction_check runs up to its await of the notice.  A private help
\* message is shown to its author alone.
Click(user, section) ==
    /\ op = "help"
    /\ sent # << >>
    /\ Len(log) < MaxClicks
    /\ user = view.author_id \/ ~sent[1].ephemeral
    /\ IF interaction_check(view, user)
       THEN /\ view' = _switch(view, section)
            /\ log' = Append(log, [ user |-> user, button |-> section, allowed |-> TRUE,
                                    notice |-> NoContent, ephemeral |-> FALSE,
                                    pc |-> "await",
                                    edit |-> [ embed |-> IF section \in DOMAIN HELP_PAGES
                                                         THEN HELP_PAGES[section]
                                                         ELSE help_embed_overview,
                                               view |-> TRUE,
                                               styles |-> _switch(view, section).styles ] ])
       ELSE /\ log' = Append(log, [ user |-> user, button |-> section, allowed |-> FALSE,
                                    notice |-> NoticeContent, ephemeral |-> TRUE,
                                    pc |-> "await", edit |-> NoMessage ])
            /\ UNCHANGED view
    /\ UNCHANGED << op, input, public, counts, result, called, sent, escaped, args,
                    expanded, message, ready, _ctx_registered, tree, pending, outcomes,
                    pint, sympy, frame >>

\* The edit_message or the notice that button interaction k awaits ends,
\* with any outcome: an edit that returns changes the message shown, and
\* interaction_check returns False once its notice is sent.
ClickCompletes(k) ==
    /\ log[k].pc = "await"
    /\ \E o \in SendOutcomes :
          /\ log' = [ log EXCEPT ![k].pc = IF o = NoError THEN "returned" ELSE "raised" ]
          /\ message' = IF o = NoError /\ log[k].allowed THEN log[k].edit ELSE message
    /\ UNCHANGED << op, input, public, counts, result, called, sent, escaped, args,
                    expanded, view, ready, _ctx_registered, tree, pending, outcomes, pint,
                    sympy, frame >>

\* A help menu opened by any user, private or public, and pressed by any.
InitHelp ==
    /\ Fresh
    /\ input = << >>
    /\ public \in BOOLEAN
    /\ args \in HelpArgs
    /\ pint = AllReturn
    /\ sympy = NoError
NextHelp ==
    \/ HelpCmd
    \/ SendCompletes
    \/ \E user \in Users, section \in Range(Sections) : Click(user, section)
    \/ \E k \in DOMAIN log : ClickCompletes(k)
SpecHelp == InitHelp /\ [][NextHelp]_vars

\* One command: a slash command, any of them, private or public, before
\* on_ready has run, or the context menu used on a message once on_ready
\* has added it (it has no public option).
InitCommands ==
    /\ \/ /\ Fresh
          /\ public \in BOOLEAN
          /\ \/ /\ args = NoArgs /\ input \in CommandEquations
                /\ pint = AllReturn /\ sympy = NoError
             \/ /\ args \in HelpArgs \cup ConstArgs /\ input = << >>
                /\ pint = AllReturn /\ sympy = NoError
             \/ /\ args \in OhmArgs \cup KinematicsArgs \cup ConvertArgs /\ input = << >>
                /\ pint \in PintOutcomes /\ sympy = NoError
             \/ /\ args \in MathArgs /\ input = << >>
                /\ pint = AllReturn /\ sympy \in SympyOutcomes
       \/ /\ Unanswered
          /\ ready = << on_ready(FALSE, << >>).outcome >>
          /\ _ctx_registered = on_ready(FALSE, << >>).registered
          /\ tree = on_ready(FALSE, << >>).tree
          /\ public = FALSE
          /\ args \in CtxArgs /\ input = << >>
          /\ pint = AllReturn /\ sympy \in SympyOutcomes
NextCommands ==
    \/ args.cmd = "none" /\ ChemBalance
    \/ PhysOhm
    \/ PhysKinematics
    \/ HelpCmd
    \/ PhysConst
    \/ PhysConvert
    \/ MathCalc
    \/ MathFactor
    \/ MathExpand
    \/ MathLimit
    \/ MathSeries
    \/ MathSolve
    \/ MathDiff
    \/ MathIntegrate
    \/ MathDsolve1
    \/ MathDsolve2
    \/ CtxCompute
    \/ SendCompletes
SpecCommands == InitCommands /\ [][NextCommands]_vars

\* _expand_groups(input) is called: formula is the argument.
ExpandEnter ==
    /\ op = "none"
    /\ op' = "_expand_groups: while"
    /\ expanded' = input
    /\ UNCHANGED << input, public, counts, result, called, sent, escaped, args, view,
                    message, log, ready, _ctx_registered, tree, pending, outcomes, pint,
                    sympy, frame >>

\* One iteration of the while loop: the leftmost match is replaced.
ExpandIterate ==
    /\ op = "_expand_groups: while"
    /\ GroupSearch(expanded) # 0
    /\ expanded' = ExpandStep(expanded, GroupSearch(expanded))
    /\ UNCHANGED << op, input, public, counts, result, called, sent, escaped, args, view,
                    message, log, ready, _ctx_registered, tree, pending, outcomes, pint,
                    sympy, frame >>

\* No match is left: the loop ends and formula is returned.
ExpandReturn ==
    /\ op = "_expand_groups: while"
    /\ GroupSearch(expanded) = 0
    /\ op' = "_expand_groups"
    /\ UNCHANGED << input, public, counts, result, called, sent, escaped, args, expanded,
                    view, message, log, ready, _ctx_registered, tree, pending, outcomes,
                    pint, sympy, frame >>

\* The loop of _expand_groups, iteration by iteration, on every formula of
\* Formulas.
InitExpand == Idle /\ input \in Formulas /\ public = FALSE
NextExpand == ExpandEnter \/ ExpandIterate \/ ExpandReturn
SpecExpand == InitExpand /\ [][NextExpand]_vars

\* The same loop on LoopFormulas: a call that has started keeps running.
InitExpandFair == Idle /\ input \in LoopFormulas /\ public = FALSE
SpecExpandFair == InitExpandFair /\ [][NextExpand]_vars /\ WF_vars(NextExpand)

\* The gateway delivers READY: the event is dispatched and a task for the
\* cog's on_ready listener is scheduled on the event loop.
Ready ==
    /\ Len(ready) < MaxReady
    /\ ready' = Append(ready, "scheduled")
    /\ UNCHANGED << op, input, public, counts, result, called, sent, escaped, args,
                    expanded, view, message, log, _ctx_registered, tree, pending,
                    outcomes, pint, sympy, frame >>

\* The event loop runs listener task i, whichever scheduled one it is, from
\* its first statement to its last.
OnReady(i) ==
    /\ ready[i] = "scheduled"
    /\ \E r \in { on_ready(_ctx_registered, tree) } :
          /\ _ctx_registered' = r.registered
          /\ tree' = r.tree
          /\ ready' = [ ready EXCEPT ![i] = r.outcome ]
    /\ UNCHANGED << op, input, public, counts, result, called, sent, escaped, args,
                    expanded, view, message, log, pending, outcomes, pint, sympy, frame >>

\* One MathCog from its construction on, over up to MaxReady READY events.
InitReady == Idle /\ input = << >> /\ public = FALSE
NextReady ==
    \/ Ready
    \/ \E i \in DOMAIN ready : OnReady(i)
SpecReady == InitReady /\ [][NextReady]_vars

\* The command on every equation of CommandEquations, private and public.
Init == Idle /\ input \in CommandEquations /\ public \in BOOLEAN
Next == ChemBalance \/ SendCompletes
Spec == Init /\ [][Next]_vars

\* ------------------------------------------------------------------------
\* Properties of the balancer (SpecBalance)
\* ------------------------------------------------------------------------

RECURSIVE Sum(_)
Sum(xs) == IF xs = << >> THEN 0 ELSE Head(xs) + Sum(Tail(xs))

\* A call of balance_equation has returned a value.
Balanced == op = "balance_equation" /\ result.ok

\* The atoms of element el on one side: each term's parsed count of el
\* times the coefficient returned for the term.
SideAtoms(names, coeffs, el) ==
    Sum([ i \in 1..Len(names) |-> coeffs[i] * DictGet(parse_formula(names[i]), el, 0) ])

ResultLhsCoeffs == SubSeq(result.coeffs, 1, Len(result.lhs_names))
ResultRhsCoeffs ==
    SubSeq(result.coeffs, Len(result.lhs_names) + 1, Len(result.coeffs))

ResultElements ==
    UNION { DictKeys(parse_formula(n)) :
                n \in Range(result.lhs_names) \cup Range(result.rhs_names) }

\* C1 (conservation): whenever balance_equation returns, every element has
\* the same number of atoms on the reactant side as on the product side once
\* each term's parsed element counts are multiplied by its coefficient.
C1_Conservation ==
    Balanced =>
        \A el \in ResultElements :
            SideAtoms(result.lhs_names, ResultLhsCoeffs, el)
                = SideAtoms(result.rhs_names, ResultRhsCoeffs, el)

\* Fe + O2 = Fe2O3 has been balanced as 4, 3, 2.
C1_Witness ==
    /\ Balanced
    /\ result.lhs_names = << << "F", "e" >>, << "O", "2" >> >>
    /\ result.rhs_names = << << "F", "e", "2", "O", "3" >> >>
    /\ result.coeffs = << 4, 3, 2 >>

\* C2 (positivity), as claimed: whenever balance_equation returns, every
\* returned coefficient is a positive integer.
C2_Positivity ==
    Balanced => \A i \in 1..Len(result.coeffs) : result.coeffs[i] > 0

\* The largest absolute value of a non-empty vector, and whether g divides
\* every entry.
MaxAbs(xs) ==
    CHOOSE m \in { Abs(xs[i]) : i \in 1..Len(xs) } :
        \A i \in 1..Len(xs) : Abs(xs[i]) <= m

DividesAll(g, xs) == \A i \in 1..Len(xs) : xs[i] % g = 0

\* C3 (minimality): whenever balance_equation returns, the greatest common
\* divisor of the absolute values of the returned coefficients is 1.
C3_Minimality ==
    Balanced =>
        /\ MaxAbs(result.coeffs) > 0
        /\ \A g \in 2..MaxAbs(result.coeffs) : ~DividesAll(g, result.coeffs)

\* Al + HCl = AlCl3 + H2 has been balanced as 2, 6, 2, 3: the null-space
\* vector 1, 3, 1, 3/2 was scaled to integers and has no common factor left.
C3_Witness ==
    /\ Balanced
    /\ Len(result.lhs_names) = 2
    /\ result.coeffs = << 2, 6, 2, 3 >>

\* The conservation matrix balance_equation builds for an equation with
\* exactly one "=".
HasTwoSides(equation) == Len(Split(equation, "=")) = 2

ConservationMatrix(equation) ==
    LET parts == Split(equation, "=")
    IN  build_matrix(parse_side(Strip(parts[1])), parse_side(Strip(parts[2])))

Rank(A) == Len(rref(A).pivots)

\* C7 (unbalanceable): when the conservation matrix has full column rank
\* (only the trivial null space), balance_equation raises the error "No
\* non-trivial solution." and returns no coefficients.
C7_Unbalanceable ==
    ( /\ op = "balance_equation"
      /\ HasTwoSides(input)
      /\ Rank(ConservationMatrix(input)) = ConservationMatrix(input).cols )
        => /\ ~result.ok
           /\ result.err = ErrNoSolution
           /\ result.coeffs = << >>

\* Fe = O2 has been rejected: its two columns are independent.
C7_Witness ==
    /\ op = "balance_equation"
    /\ input = << "F", "e" >> \o Equals \o << "O", "2" >>
    /\ Rank(ConservationMatrix(input)) = 2
    /\ result.err = ErrNoSolution

\* The k-th separator of a text, counted from the left, and the pieces the
\* separators cut it into, read off the positions of the separators.
SepCount(s, sep) == Cardinality({ i \in 1..Len(s) : s[i] = sep })

SepPos(s, sep, k) ==
    IF k = 0 THEN 0
    ELSE IF k > SepCount(s, sep) THEN Len(s) + 1
    ELSE CHOOSE i \in 1..Len(s) :
            /\ s[i] = sep
            /\ Cardinality({ j \in 1..i : s[j] = sep }) = k

Piece(s, sep, k) == SubSeq(s, SepPos(s, sep, k - 1) + 1, SepPos(s, sep, k) - 1)

\* A text without the whitespace before its first and after its last
\* character that is not whitespace.
Trimmed(s) ==
    LET inked == { i \in 1..Len(s) : s[i] \notin Whitespace }
    IN  IF inked = {} THEN << >>
        ELSE SubSeq(s, CHOOSE i \in inked : \A j \in inked : i <= j,
                       CHOOSE i \in inked : \A j \in inked : i >= j)

\* The trimmed term texts of side k (1 reactants, 2 products) of an equation.
TermTexts(equation, k) ==
    LET side == Trimmed(Piece(equation, "=", k))
    IN  [ t \in 1..(SepCount(side, "+") + 1) |-> Trimmed(Piece(side, "+", t)) ]

\* C11 (one coefficient per term): a successful balance_equation returns
\* as many coefficients as the two sides have terms, the reactants' first
\* and the products' after them, in the order of the columns of the
\* conservation matrix, which is the order the terms are written in; the two
\* lists of names are the trimmed term texts of the sides in that order.
C11_OnePerTerm ==
    Balanced =>
        /\ Len(result.coeffs) = Len(result.lhs_names) + Len(result.rhs_names)
        /\ result.lhs_names = TermTexts(input, 1)
        /\ result.rhs_names = TermTexts(input, 2)
        /\ result.coeffs = nullspace_integer(ConservationMatrix(input)).vec

\* Al + HCl = AlCl3 + H2 has been balanced: four coefficients, two names a
\* side, each name without the blanks that surround it in the equation.
C11_Witness ==
    /\ Balanced
    /\ result.lhs_names = << << "A", "l" >>, << "H", "C", "l" >> >>
    /\ result.rhs_names = << << "A", "l", "C", "l", "3" >>, << "H", "2" >> >>
    /\ Len(result.coeffs) = 4

\* A term text without the integer written in front of it, and an equation
\* with every term so stripped.
Bare(term) == Trimmed(SubSeq(term, DigitsEnd(term, 1), Len(term)))

HasCoefficient(term) == term # << >> /\ term[1] \in Digit

BareSide(equation, k) ==
    LET terms == TermTexts(equation, k)
    IN  Join(Plus, [ t \in 1..Len(terms) |-> Bare(terms[t]) ])

BareEquation(equation) == BareSide(equation, 1) \o Equals \o BareSide(equation, 2)

\* C12 (coefficients already written): an equation in which terms carry an
\* integer coefficient gets the same outcome, and when it balances the
\* same coefficient vector, as the equation without them.
C12_WrittenCoefficientsIgnored ==
    ( op = "balance_equation" /\ HasTwoSides(input) ) =>
        /\ result.ok = balance_equation(BareEquation(input)).ok
        /\ result.coeffs = balance_equation(BareEquation(input)).coeffs
        /\ result.err = balance_equation(BareEquation(input)).err

\* "2 Fe + O2 = Fe2O3" has been balanced as 4, 3, 2, as Fe + O2 = Fe2O3 is.
C12_Witness ==
    /\ Balanced
    /\ input = << "2", " ", "F", "e" >> \o Plus \o << "O", "2" >> \o Equals
                    \o << "F", "e", "2", "O", "3" >>
    /\ HasCoefficient(TermTexts(input, 1)[1])
    /\ BareEquation(input) = << "F", "e" >> \o Plus \o << "O", "2" >> \o Equals
                                \o << "F", "e", "2", "O", "3" >>
    /\ result.coeffs = << 4, 3, 2 >>

\* The two sides of an equation that has exactly one "=".
LeftSide(equation) == Strip(Split(equation, "=")[1])
RightSide(equation) == Strip(Split(equation, "=")[2])

\* C5 (empty side), as claimed: an equation with one "=" whose reactant side
\* or product side is empty or blank makes balance_equation fail, with no
\* coefficient vector returned.
C5_EmptySideFails ==
    ( /\ op = "balance_equation"
      /\ HasTwoSides(input)
      /\ (LeftSide(input) = << >> \/ RightSide(input) = << >>) )
        => ~result.ok /\ result.coeffs = << >>

\* ------------------------------------------------------------------------
\* Properties of the formula parser (SpecParse)
\* ------------------------------------------------------------------------

Parsed == op = "parse_formula"

\* The formula holds no element token ([A-Z] starts every token).
NoElementToken(formula) == \A i \in 1..Len(formula) : formula[i] \notin Upper

\* Depth of open parentheses after the first i characters.
RECURSIVE ParenDepth(_, _)
ParenDepth(s, i) ==
    IF i = 0 THEN 0
    ELSE ParenDepth(s, i - 1)
            + (IF s[i] = "(" THEN 1 ELSE IF s[i] = ")" THEN -1 ELSE 0)

BalancedParens(s) ==
    /\ ParenDepth(s, Len(s)) = 0
    /\ \A i \in 1..Len(s) : ParenDepth(s, i) >= 0

\* C6 (parse errors), as claimed: parse_formula raises, and returns no map,
\* for a formula without an element token and for a formula whose
\* parentheses are unbalanced.
C6_ParseErrorRaised ==
    ( Parsed /\ (NoElementToken(input) \/ ~BalancedParens(input)) )
        => escaped # NoError

\* Reading a formula by its grammar, independently of the two patterns:
\*   items := item*        item := [A-Z][a-z]? digit*  |  "(" item+ ")" digit+
\* ReadItems reads items from index i up to a ")" or the end and gives the
\* occurrences read, each an element with its count times the multipliers
\* of the groups around it.
Scaled(occ, m) == [ k \in 1..Len(occ) |-> [ el |-> occ[k].el, cnt |-> occ[k].cnt * m ] ]

NotRead == [ ok |-> FALSE, next |-> 0, occ |-> << >> ]

RECURSIVE ReadItems(_, _)
ReadItems(s, i) ==
    IF i > Len(s) \/ s[i] = ")" THEN [ ok |-> TRUE, next |-> i, occ |-> << >> ]
    ELSE IF s[i] \in Upper
    THEN LET j    == IF i + 1 <= Len(s) /\ s[i + 1] \in Lower THEN i + 2 ELSE i + 1
             k    == DigitsEnd(s, j)
             n    == IF k > j THEN StrToInt(SubSeq(s, j, k - 1)) ELSE 1
             rest == ReadItems(s, k)
         IN  IF rest.ok
             THEN [ rest EXCEPT !.occ = << [ el |-> SubSeq(s, i, j - 1), cnt |-> n ] >> \o @ ]
             ELSE NotRead
    ELSE IF s[i] = "("
    THEN LET inner == ReadItems(s, i + 1)
             c     == inner.next
         IN  IF /\ inner.ok
                /\ inner.occ # << >>
                /\ c + 1 <= Len(s)
                /\ s[c] = ")"
                /\ s[c + 1] \in Digit
             THEN LET e    == DigitsEnd(s, c + 1)
                      m    == StrToInt(SubSeq(s, c + 1, e - 1))
                      rest == ReadItems(s, e)
                  IN  IF rest.ok
                      THEN [ rest EXCEPT !.occ = Scaled(inner.occ, m) \o @ ]
                      ELSE NotRead
             ELSE NotRead
    ELSE NotRead

WellFormed(s) == ReadItems(s, 1).ok /\ ReadItems(s, 1).next = Len(s) + 1

\* The total of an element over the occurrences read.
Total(occ, el) ==
    Sum([ k \in 1..Len(occ) |-> IF occ[k].el = el THEN occ[k].cnt ELSE 0 ])

HasGroup(s) == \E i \in 1..Len(s) : s[i] = "("

\* C9 (group expansion): for a formula made of element tokens with optional
\* digit counts and of balanced groups, each enclosing at least one token
\* and followed by a digit multiplier, nested or not, parse_formula returns
\* exactly the elements that occur, each with the sum over its occurrences
\* of its count times the multipliers of the groups around the occurrence.
C9_GroupExpansion ==
    ( Parsed /\ WellFormed(input) ) =>
        LET occ == ReadItems(input, 1).occ
        IN  /\ DictKeys(counts) = { occ[k].el : k \in 1..Len(occ) }
            /\ \A el \in DictKeys(counts) : DictGet(counts, el, 0) = Total(occ, el)
            /\ \A a, b \in 1..Len(counts) : counts[a].el = counts[b].el => a = b

\* ((H)3O2)10 has been parsed: the nested group gives H 30 and O 20.
C9_Witness ==
    /\ Parsed
    /\ input = << "(", "(", "H", ")", "3", "O", "2", ")", "1", "0" >>
    /\ WellFormed(input)
    /\ DictGet(counts, << "H" >>, 0) = 30
    /\ DictGet(counts, << "O" >>, 0) = 20

\* C10 (counts at least 1), as claimed: every key of the map parse_formula
\* returns has a count of at least 1.
C10_CountsPositive ==
    Parsed => \A i \in 1..Len(counts) : counts[i].cnt >= 1

\* ------------------------------------------------------------------------
\* Properties of the /chem balance command (Spec)
\* ------------------------------------------------------------------------

\* The handler of the request has ended.
Handled == op = "chem_balance"

\* Every send the command has awaited has returned.
NoSendRaised == \A k \in DOMAIN outcomes : outcomes[k] = NoError

NoSeparator(equation) == \A i \in 1..Len(equation) : equation[i] # "="

HintReply ==
    [ content |-> HintContent, embed |-> NoEmbed, ephemeral |-> TRUE, via |-> "response" ]

\* C4 (format error): for a request whose equation holds no "=" no
\* coefficients are computed, balance_equation is not called and itself
\* raises on such a string, and the first message the handler sends is the
\* hint "Use the format: reactants = products", sent privately with no
\* embed; when that send returns the request ends with the hint as its
\* only reply.  No other request is sent the hint, so the outcome is told
\* apart from every other failure.
C4_FormatError ==
    /\ (op = "chem_balance: await" /\ NoSeparator(input) /\ outcomes = << >>) =>
          pending = << HintReply >>
    /\ Handled =>
          /\ NoSeparator(input) =>
                /\ ~called
                /\ result.coeffs = << >>
                /\ ~balance_equation(input).ok
                /\ balance_equation(input).err # ErrNoSolution
                /\ NoSendRaised => sent = << HintReply >> /\ escaped = NoError
          /\ ~NoSeparator(input) =>
                \A k \in 1..Len(sent) : sent[k].content # HintContent

\* "H2+" has been answered with the hint.
C4_Witness ==
    /\ Handled
    /\ input = << "H", "2", "+" >>
    /\ outcomes = << NoError >>
    /\ sent = << HintReply >>

\* C8 as claimed (one reply, no unhandled error): every request ends with
\* exactly one reply, either the embed of the balanced equation or an error
\* text, never both; no exception leaves the handler; the embed is sent
\* only when balance_equation returned, and a request that failed gets the
\* error text.
C8_ExactlyOneReply ==
    Handled =>
        /\ Len(sent) = 1
        /\ escaped = NoError
        /\ (sent[1].embed = NoEmbed) # (sent[1].content = NoContent)
        /\ sent[1].embed # NoEmbed => called /\ result.ok
        /\ (called /\ ~result.ok) =>
              /\ sent[1].content = ErrorContent(result.err)
              /\ sent[1].ephemeral

\* C8 as amended (one reply when a send is accepted): a request ends with
\* at most one reply, with exactly one and no exception when its first send
\* returns, and with none exactly when an exception leaves the handler,
\* which is then the exception of the last send it attempted: no exception
\* raised while splitting, parsing or balancing leaves it.  A reply is
\* either the embed of the balanced equation or a text, never both; the
\* embed is sent only when balance_equation returned; a request that
\* failed gets, if any reply, the text of its error, privately; a request
\* whose send of the embed raised gets, if any reply, the text of the
\* exception of that send, privately.
C8_OneReplyWhenSent ==
    Handled =>
        /\ Len(sent) <= 1
        /\ Len(outcomes) <= 2
        /\ (outcomes # << >> /\ outcomes[1] = NoError) => (Len(sent) = 1 /\ escaped = NoError)
        /\ escaped = NoError <=> Len(sent) = 1
        /\ escaped # NoError =>
              /\ outcomes # << >>
              /\ escaped = outcomes[Len(outcomes)]
              /\ Len(outcomes) = 1 => ~Caught(escaped) \/ (called /\ ~result.ok)
        /\ \A k \in DOMAIN sent :
              /\ (sent[k].embed = NoEmbed) # (sent[k].content = NoContent)
              /\ sent[k].embed # NoEmbed => called /\ result.ok /\ outcomes = << NoError >>
              /\ (called /\ ~result.ok) =>
                    /\ sent[k].content = ErrorContent(result.err)
                    /\ sent[k].ephemeral
              /\ Len(outcomes) = 2 =>
                    /\ sent[k].content = ErrorContent(outcomes[1])
                    /\ sent[k].ephemeral
                    /\ ~(called /\ ~result.ok)

\* The send of the embed of a balanced equation raised, and so did the
\* send of the text of that exception: the request has ended with no reply
\* and the second exception has left the handler.
C8_Witness ==
    /\ Handled
    /\ called /\ result.ok
    /\ outcomes = << ErrHTTP, ErrHTTP >>
    /\ sent = << >>
    /\ escaped = ErrHTTP

\* The text of the first k terms of a side: a term is its name, with the
\* coefficient and a blank in front unless the coefficient is 1, and " + "
\* stands between two terms.
RECURSIVE SideText(_, _, _)
SideText(coeffs, names, k) ==
    IF k = 0 THEN << >>
    ELSE (IF k > 1 THEN SideText(coeffs, names, k - 1) \o << " ", "+", " " >> ELSE << >>)
            \o (IF coeffs[k] = 1 THEN << >> ELSE IntStr(coeffs[k]) \o << " " >>)
            \o names[k]

\* C13 (display format): the embed of a balanced equation shows, in a code
\* span, the reactant terms joined by " + ", then " = ", then the product
\* terms joined by " + ", each term in the order returned, written as
\* coefficient, blank, name when the coefficient is not 1 and as the bare
\* name when it is 1.
C13_DisplayFormat ==
    /\ \A m \in Range(sent) \cup Range(pending) :
          (args.cmd = "none" /\ m.embed # NoEmbed) =>
              /\ called /\ result.ok
              /\ m.embed.description =
                    << Backquote >>
                      \o SideText(ResultLhsCoeffs, result.lhs_names, Len(result.lhs_names))
                      \o << " ", "=", " " >>
                      \o SideText(ResultRhsCoeffs, result.rhs_names, Len(result.rhs_names))
                      \o << Backquote >>
    /\ (Handled /\ called /\ result.ok /\ NoSendRaised) =>
          Len(sent) = 1 /\ sent[1].embed # NoEmbed

\* Fe + O2 = Fe2O3 has been answered with "4 Fe + 3 O2 = 2 Fe2O3".
C13_Witness ==
    /\ Handled
    /\ result.coeffs = << 4, 3, 2 >>
    /\ Len(sent) = 1
    /\ sent[1].embed # NoEmbed
    /\ sent[1].embed.description =
          << Backquote, "4", " ", "F", "e", " ", "+", " ", "3", " ", "O", "2",
             " ", "=", " ", "2", " ", "F", "e", "2", "O", "3", Backquote >>

\* ------------------------------------------------------------------------
\* Properties of the slash commands (SpecCommands)
\* ------------------------------------------------------------------------

Replied ==
    op \in { "chem_balance", "phys_ohm", "phys_kinematics", "help", "phys_const",
             "phys_convert", "math_calc", "math_factor", "math_expand", "math_limit",
             "math_series", "math_solve", "math_diff", "math_integrate", "math_dsolve1",
             "math_dsolve2", "_ctx_compute_callback" }

\* The reply carries the result of the command: an embed, or a text that
\* opens with a code span, not the text of a hint or of an error.
CarriesResult(m) ==
    IF m.content = NoContent THEN m.embed # NoEmbed ELSE m.content[1] = Backquote

\* The command failed before its reply: the equation did not balance, the
\* values were not two, the constant is not in the table, or a call into
\* pint or the computation raised.
CommandFailed ==
    CASE args.cmd = "none" -> ~(called /\ result.ok)
      [] args.cmd = "ohm" ->
            \/ GivenCount(<< args.v, args.i, args.r >>) # 2
            \/ RaisedWithin(ohm_calls(args.v, args.i, args.r), pint) # NoError
      [] args.cmd = "kinematics" ->
            RaisedWithin(kinematics_calls(kinematics_solve(kinematics_q(args))), pint)
                # NoError
      [] args.cmd = "const" ->
            \A k \in DOMAIN PhysicalConstants : PhysicalConstants[k].key # Strip(args.name)
      [] args.cmd = "convert" -> RaisedWithin(convert_calls, pint) # NoError
      [] args.cmd \in { "dsolve1", "dsolve2" } ->
            ~dsolve(_parse_ode_to_eq(args.eq),
                    initial_conditions(args.ics, IF args.cmd = "dsolve1" THEN 1 ELSE 2),
                    sympy).ok
      [] OTHER -> sympy # NoError

\* C15 (reply privacy): a message a slash command sends or has sent is
\* public exactly when the caller passed public=true and the message
\* carries the result of the command; with public false, and on every path
\* of a validation failure or of an exception whatever the flag, it is
\* ephemeral.  A command is answered at most once, and once when its first
\* send returns.
C15_ReplyPrivacy ==
    /\ \A m \in Range(sent) \cup Range(pending) :
          /\ ~m.ephemeral <=> (public /\ CarriesResult(m))
          /\ CommandFailed => m.ephemeral /\ ~CarriesResult(m)
          /\ outcomes # << >> /\ outcomes[1] # NoError => m.ephemeral
    /\ Replied =>
          /\ Len(sent) <= 1
          /\ NoSendRaised => Len(sent) = 1

\* /phys ohm with public=true and a current of 0 A, where the division,
\* the third call into pint, raised: it has been answered privately with
\* the text of the error.
C15_Witness ==
    /\ op = "phys_ohm"
    /\ public
    /\ args.v = Text(<< "6", " ", "V" >>)
    /\ args.i = Text(<< "0", " ", "A" >>)
    /\ args.r = None
    /\ pint = [ at |-> 3, err |-> ErrZeroDivision(FALSE) ]
    /\ sent = << [ content |-> InvalidInputContent(ErrZeroDivision(FALSE)), embed |-> NoEmbed,
                   ephemeral |-> TRUE, via |-> "response" ] >>

\* The value a field of the reply shows.
Shown(m, k) == m.embed.fields[k]

\* The quantity of argument x as a field shows it.
Value(x) == QFormat(_Q(x.text))

OhmProvided == << args.v, args.i, args.r >>

\* The values provided are valid: pint raises on none of them, nor on what
\* is computed from them.  What pint makes of a blank text is left open: it
\* may raise on one, at the call of _Q on argument k of xs.
ValidValues(xs) ==
    \/ pint = AllReturn
    \/ \E k \in 1..Len(xs) :
          /\ Truthy(xs[k]) /\ ~NonBlank(xs[k])
          /\ pint.at = Parses(SubSeq(xs, 1, k))

\* C18 (Ohm's law selection), as claimed: when exactly two of v, i, r are
\* provided (non-blank), each a quantity and the divisor not zero, the
\* reply shows the two provided values unchanged and the third computed
\* from them by V = I * R; when not exactly two are provided, nothing is
\* computed and the reply is "Provide exactly TWO among V, I, R.".
C18_OhmSelection ==
    (op = "phys_ohm" /\ NoSendRaised) =>
        /\ GivenCount(OhmProvided) # 2 =>
              sent = << [ content |-> ProvideTwoContent, embed |-> NoEmbed,
                         ephemeral |-> TRUE, via |-> "response" ] >>
        /\ (GivenCount(OhmProvided) = 2 /\ ValidValues(OhmProvided))
              => /\ Len(sent) = 1
                 /\ CarriesResult(sent[1])
                 /\ \A k \in 1..3 :
                       NonBlank(OhmProvided[k]) =>
                           ~Shown(sent[1], k).dash
                           /\ Shown(sent[1], k).q = Value(OhmProvided[k])
                 /\ ~NonBlank(args.v) =>
                       Shown(sent[1], 1).q = QFormat(QMul(_Q(args.i.text), _Q(args.r.text)))
                 /\ ~NonBlank(args.i) =>
                       Shown(sent[1], 2).q = QFormat(QDiv(_Q(args.v.text), _Q(args.r.text)))
                 /\ ~NonBlank(args.r) =>
                       Shown(sent[1], 3).q = QFormat(QDiv(_Q(args.v.text), _Q(args.i.text)))

KinematicsProvided == [ k \in 1..Len(Labels) |-> args[Labels[k]] ]

\* C17 (kinematics completeness), as claimed: when exactly three of s, u,
\* v, a, t are provided, each a quantity that pint takes and computes
\* with, and the other two are left out, the reply shows a value for all
\* five, none as a dash.
C17_KinematicsComplete ==
    ( /\ op = "phys_kinematics"
      /\ NoSendRaised
      /\ GivenCount(KinematicsProvided) = 3
      /\ \A k \in 1..5 : NonBlank(KinematicsProvided[k]) \/ ~Truthy(KinematicsProvided[k])
      /\ pint = AllReturn )
        => /\ Len(sent) = 1
           /\ CarriesResult(sent[1])
           /\ \A k \in 1..5 : ~Shown(sent[1], k).dash

\* ------------------------------------------------------------------------
\* Properties of the help menu (SpecHelp)
\* ------------------------------------------------------------------------

\* The button interaction handled last.
LastClick(l) == l[Len(l)]

\* The button interactions whose awaited edit or notice returns in this
\* step.
Completed == { k \in DOMAIN log : log[k].pc = "await" /\ log'[k].pc = "returned" }

\* C16 (help-menu ownership): a button interaction of a user whose id
\* differs from author_id is rejected, interaction_check sending an
\* ephemeral notice and returning False, and leaves the section, the button
\* styles and the page shown as they were, when it is handled and when its
\* notice is sent; an interaction that changes the section or the styles
\* is the author's and sets the section of its button; the page shown
\* changes only when the edit of an author's interaction returns, to the
\* page of its button.
C16_Ownership ==
    [][ op = "help" =>
          /\ Len(log') = Len(log) + 1 =>
                /\ LastClick(log').user # view.author_id =>
                      /\ ~LastClick(log').allowed
                      /\ LastClick(log').notice = NoticeContent
                      /\ LastClick(log').ephemeral
                      /\ view' = view
                /\ view' # view => LastClick(log').user = view.author_id
                /\ LastClick(log').user = view.author_id =>
                      /\ LastClick(log').allowed
                      /\ view'.section = LastClick(log').button
                      /\ LastClick(log').edit.embed = HELP_PAGES[LastClick(log').button]
                /\ message' = message
          /\ Len(log') = Len(log) =>
                /\ view' = view
                /\ \A k \in Completed :
                      IF log[k].user = view.author_id
                      THEN message'.embed = HELP_PAGES[log[k].button]
                      ELSE message' = message /\ ~log'[k].allowed
                /\ message' # message =>
                      \E k \in Completed : log[k].user = view.author_id ]_vars

\* On a public menu its author has opened the Math page and another user
\* has then pressed Chemistry: that user got the notice and the menu still
\* shows Math.
C16_Witness ==
    /\ op = "help"
    /\ Len(log) = 2
    /\ log[1].user = view.author_id /\ log[1].button = "math" /\ log[1].allowed
    /\ log[2].user # view.author_id /\ log[2].button = "chemistry"
    /\ ~log[2].allowed /\ log[2].notice = NoticeContent
    /\ log[1].pc = "returned" /\ log[2].pc = "returned"
    /\ view.section = "math"
    /\ view.styles["math"] = "primary" /\ view.styles["chemistry"] = "secondary"
    /\ message.embed = HELP_PAGES["math"]

\* The page of the last button interaction that _switch handled, and
\* "overview" when there has been none.
RECURSIVE LastSwitched(_)
LastSwitched(l) ==
    IF l = << >> THEN "overview"
    ELSE IF LastClick(l).allowed THEN LastClick(l).button
    ELSE LastSwitched(SubSeq(l, 1, Len(l) - 1))

\* The buttons of the view that have the primary style.
PrimaryButtons == { b \in DOMAIN view.styles : view.styles[b] = "primary" }

\* C21 (help-view highlight): once the view is constructed, and after any
\* sequence of page switches, section is a key of HELP_PAGES, exactly one
\* button is primary, it is the button of the current section, every other
\* button is secondary, and the section is "overview" at first and the
\* last page clicked afterwards.
C21_Highlight ==
    view # NoView =>
        /\ view.section \in DOMAIN HELP_PAGES
        /\ DOMAIN view.styles = Range(Sections)
        /\ Cardinality(PrimaryButtons) = 1
        /\ PrimaryButtons = { view.section }
        /\ \A b \in DOMAIN view.styles \ { view.section } : view.styles[b] = "secondary"
        /\ view.section = LastSwitched(log)

\* The author has opened Physics, then Overview again: Overview alone is
\* primary.
C21_Witness ==
    /\ op = "help"
    /\ Len(log) = 2
    /\ \A k \in 1..2 : log[k].allowed
    /\ log[1].button = "physics" /\ log[2].button = "overview"
    /\ view.section = "overview"
    /\ view.styles["overview"] = "primary"
    /\ view.styles["physics"] = "secondary" /\ view.styles["chemistry"] = "secondary"

\* ------------------------------------------------------------------------
\* Properties of the context menu of the MathCog (SpecReady)
\* ------------------------------------------------------------------------

\* The listener tasks that called tree.add_command, and the entries of the
\* tree for the menu.
AddCalls == { i \in DOMAIN ready : ready[i] \in { "added", "raised" } }
MenuEntries == { k \in DOMAIN tree : tree[k] = "Compute with /math" }

\* C22 (register-once): whatever the number of on_ready events and the
\* order their listeners run in, the context menu is added to the tree at
\* most once, and exactly once as soon as one listener has run: one call
\* of add_command, none of them raising, one entry in the tree, made by
\* the listener that ran first.
C22_RegisterOnce ==
    /\ Cardinality(AddCalls) <= 1
    /\ Cardinality(MenuEntries) <= 1
    /\ \A i \in DOMAIN ready : ready[i] # "raised"
    /\ (\E i \in DOMAIN ready : ready[i] # "scheduled") <=>
          /\ Cardinality(AddCalls) = 1
          /\ tree = << "Compute with /math" >>
          /\ _ctx_registered
    /\ (\A i \in DOMAIN ready : ready[i] = "scheduled") =>
          tree = << >> /\ ~_ctx_registered

\* Three READY events have been delivered before any listener ran; the
\* listener of the second ran first and added the menu, those of the first
\* and the third ran after it and added nothing.
C22_Witness ==
    /\ Len(ready) >= 3
    /\ ready[1] = "skipped" /\ ready[2] = "added" /\ ready[3] = "skipped"
    /\ tree = << "Compute with /math" >>
    /\ _ctx_registered

\* ------------------------------------------------------------------------
\* Properties of the loop of _expand_groups (SpecExpand, SpecExpandFair)
\* ------------------------------------------------------------------------

Returned == op = "_expand_groups"

\* s[i..j] is a parenthesized group with no parenthesis inside.
GroupAt(s, i, j) ==
    /\ i < j
    /\ s[i] = "("
    /\ s[j] = ")"
    /\ \A k \in (i + 1)..(j - 1) : s[k] \notin { "(", ")" }

HasParenGroup(s) == \E i, j \in 1..Len(s) : GroupAt(s, i, j)

\* A group that is not empty and is followed by a digit.
HasMultipliedGroup(s) ==
    \E i, j \in 1..Len(s) :
        GroupAt(s, i, j) /\ j > i + 1 /\ j < Len(s) /\ s[j + 1] \in Digit

ParenCount(s) == Cardinality({ i \in 1..Len(s) : s[i] \in { "(", ")" } })

\* C19 (no group left), as claimed: the string _expand_groups returns holds
\* no parenthesized group, whatever the input formula.
C19_NoGroupLeft == Returned => ~HasParenGroup(expanded)

\* C19, amended: the string _expand_groups returns holds no group that is
\* not empty and is followed by a digit multiplier; for a formula whose
\* groups are balanced, not empty and each followed by a multiplier it
\* holds no parenthesis at all; and a formula is returned as it is exactly
\* when it holds no such group at the start.
C19_NoMultipliedGroupLeft ==
    Returned =>
        /\ ~HasMultipliedGroup(expanded)
        /\ WellFormed(input) => ParenCount(expanded) = 0
        /\ ~HasMultipliedGroup(input) <=> expanded = input

\* ((H)3O2)10 has been expanded, in two iterations, to H30O20.
C19_Witness ==
    /\ Returned
    /\ input = << "(", "(", "H", ")", "3", "O", "2", ")", "1", "0" >>
    /\ HasMultipliedGroup(input)
    /\ expanded = << "H", "3", "0", "O", "2", "0" >>

\* C20 (termination): every iteration of the while loop of _expand_groups
\* lowers the number of parentheses of the formula, by the two of the group
\* it replaces, and every call of _expand_groups returns.
C20_Termination ==
    /\ [][ (op = "_expand_groups: while" /\ op' = op) =>
              ParenCount(expanded') = ParenCount(expanded) - 2 ]_vars
    /\ <>Returned

\* (H)2(H)2 has been returned as H2H2 after two iterations.
C20_Witness ==
    /\ Returned
    /\ input = << "(", "H", ")", "2", "(", "H", ")", "2" >>
    /\ ParenCount(input) = 4
    /\ expanded = << "H", "2", "H", "2" >>

====
